---------------------------- MODULE Spec2Model ----------------------------
(***************************************************************************)
(* Beam-search decoding engine of BartForConditionalGeneration             *)
(* (src/src/bart/my_model.py): construction of the score-transform chain   *)
(* and of the stopping criteria, the per-layer cache reordering, and the   *)
(* generation loop of beam_search, on one process and on several processes *)
(* synchronised by one all-reduce per iteration (synced_gpus).             *)
(*                                                                         *)
(* Specifications: SpecChain (chain and criteria construction), SpecCache  *)
(* (_reorder_cache), Spec (generate and beam_search on one process),       *)
(* SpecEntry (the calls up to the loop head, for batches), SpecInvalid     *)
(* (Spec with a scoring model that may answer NaN), SpecSync and           *)
(* SpecSyncFair (synced_gpus), SpecPool (a finished set on its own),       *)
(* SpecTies (one step of beam_search with every order torch.topk may give  *)
(* to equal scores).                                                       *)
(*                                                                         *)
(* Conventions.  Token ids and beam indices are 0-based as in the source;  *)
(* sequences are 1-based, so row i of a tensor with beam index b is at     *)
(* position b + 1.  Python's None is the integer None below; Python's      *)
(* True / False, where a parameter may also be None, are PyTrue / PyFalse. *)
(* Real-valued parameters are scaled by ten (repetition_penalty 1.0 is 10).*)
(***************************************************************************)
EXTENDS Integers, Sequences, FiniteSets

VARIABLES
    call,            \* the chain-construction call under way: function and inputs
    built,           \* what that call produced: an exception or a list
    cache_call,      \* the _reorder_cache call: the past and beam_idx passed
    reordered_past,  \* what _reorder_cache returned
    peer,            \* per process: the state of its generate / beam_search call
    synced_gpus,     \* the synced_gpus argument, the same on every process
    contrib,         \* per process: the flag it has handed to the pending all_reduce
    pool             \* a finished set on its own: its parameters, content and insertions

chainVars == <<call, built>>
cacheVars == <<cache_call, reordered_past>>
searchVars == <<peer, synced_gpus, contrib>>
poolVars == <<pool>>
vars == <<call, built, cache_call, reordered_past, peer, synced_gpus, contrib, pool>>

None == -1
PyFalse == 0
PyTrue == 1

(***************************************************************************)
(* Bounds of the model.                                                    *)
(***************************************************************************)
MaxSet == 3          \* generation parameters given a value other than None
MaxCustom == 2       \* length of a caller-supplied rule or criteria list
MaxSlots == 4        \* beam slots (batch_size * num_beams) of a reordered cache
MaxLayers == 2       \* decoder layers of a cache
MaxLen == 3          \* largest max_length a search is given
MaxBeams == 2        \* largest num_beams of a search
NumPeers == 2
MaxBatch == 2
MaxInserts == 4        \* processes of a distributed search

(***************************************************************************)
(* Sequence helpers.                                                       *)
(***************************************************************************)
Range(s) == {s[i] : i \in DOMAIN s}

RECURSIVE SeqsUpTo(_, _)
SeqsUpTo(S, n) ==
    IF n = 0 THEN {<<>>}
    ELSE LET shorter == SeqsUpTo(S, n - 1)
         IN  shorter \cup {Append(s, x) : s \in {t \in shorter : Len(t) = n - 1}, x \in S}

(***************************************************************************)
(* Rules and criteria: the class of the object, who created it, and the    *)
(* constructor arguments.                                                  *)
(***************************************************************************)
Rule(type, by, arguments) == [type |-> type, by |-> by, args |-> arguments]

NoError == "none"
Raised(e) == [error |-> e, list |-> <<>>]
Returned(l) == [error |-> NoError, list |-> l]

\* `if cond: processors.append(rule)`
AppendIf(cond, rule) == IF cond THEN <<rule>> ELSE <<>>

(***************************************************************************)
(* _merge_criteria_processor_list: an empty custom list returns the        *)
(* default list; a custom element of the type of a default element raises; *)
(* otherwise the custom list is appended to the default list.              *)
(***************************************************************************)
MergeDuplicate(default_list, custom_list) ==
    \E d \in DOMAIN default_list : \E c \in DOMAIN custom_list :
        custom_list[c].type = default_list[d].type

\* Mutant: the custom list is placed in front of the default list.
MergeCustomFirst(default_list, custom_list) ==
    IF Len(custom_list) = 0 THEN Returned(default_list)
    ELSE IF MergeDuplicate(default_list, custom_list)
         THEN Raised("ValueError: custom object already created")
         ELSE Returned(custom_list \o default_list)

_merge_criteria_processor_list(default_list, custom_list) ==
    IF Len(custom_list) = 0 THEN Returned(default_list)
    ELSE IF MergeDuplicate(default_list, custom_list)
         THEN Raised("ValueError: custom object already created")
         ELSE Returned(default_list \o custom_list)

(***************************************************************************)
(* _get_logits_processor, from the parameters as resolved against the      *)
(* configuration (a.x is `x if x is not None else self.config.x`).         *)
(***************************************************************************)
DefaultProcessors(a) ==
       AppendIf(a.diversity_penalty # None /\ a.diversity_penalty > 0,
                Rule("HammingDiversity", "default",
                     <<a.diversity_penalty, a.num_beams, a.num_beam_groups>>))
    \o AppendIf(a.repetition_penalty # None /\ a.repetition_penalty # 10,
                Rule("RepetitionPenalty", "default", <<a.repetition_penalty>>))
    \o AppendIf(a.no_repeat_ngram_size # None /\ a.no_repeat_ngram_size > 0,
                Rule("NoRepeatNGram", "default", <<a.no_repeat_ngram_size>>))
    \o AppendIf(a.encoder_no_repeat_ngram_size # None /\ a.encoder_no_repeat_ngram_size > 0,
                Rule("EncoderNoRepeatNGram", "default", <<a.encoder_no_repeat_ngram_size>>))
    \o AppendIf(a.bad_words_ids # None,
                Rule("NoBadWords", "default", <<a.bad_words_ids, a.eos_token_id>>))
    \o AppendIf(a.min_length # None /\ a.eos_token_id # None /\ a.min_length > 0,
                Rule("MinLength", "default", <<a.min_length, a.eos_token_id>>))
    \o AppendIf(a.prefix_allowed_tokens_fn # None,
                Rule("PrefixConstrained", "default",
                     <<a.prefix_allowed_tokens_fn, a.num_beams \div a.num_beam_groups>>))
    \o AppendIf(a.forced_bos_token_id # None,
                Rule("ForcedBOSToken", "default", <<a.forced_bos_token_id>>))
    \o AppendIf(a.forced_eos_token_id # None,
                Rule("ForcedEOSToken", "default", <<a.max_length, a.forced_eos_token_id>>))
    \o AppendIf(a.remove_invalid_values = PyTrue,
                Rule("InfNanRemove", "default", <<>>))
    \o AppendIf(a.exponential_decay_length_penalty # None,
                Rule("ExponentialDecayLengthPenalty", "default",
                     <<a.exponential_decay_length_penalty, a.eos_token_id,
                       a.input_ids_seq_length>>))
    \o AppendIf(a.suppress_tokens # None,
                Rule("SuppressTokens", "default", <<a.suppress_tokens>>))
    \o AppendIf(a.begin_suppress_tokens # None,
                Rule("SuppressTokensAtBegin", "default",
                     <<a.begin_suppress_tokens,
                       (IF a.input_ids_seq_length > 1 \/ a.forced_bos_token_id = None
                        THEN a.input_ids_seq_length
                        ELSE a.input_ids_seq_length + 1)
                       + (IF a.forced_decoder_ids # None THEN a.forced_decoder_ids ELSE 0)>>))
    \o AppendIf(a.forced_decoder_ids # None,
                Rule("ForceTokens", "default", <<a.forced_decoder_ids>>))

\* Mutant: the architecture is not looked at.
EncoderNoRepeatNeverRaised(a) == FALSE

\* `raise ValueError` of the encoder-no-repeat branch on a decoder-only configuration
EncoderNoRepeatError(a) ==
    /\ a.encoder_no_repeat_ngram_size # None
    /\ a.encoder_no_repeat_ngram_size > 0
    /\ a.is_encoder_decoder # PyTrue

\* Mutant: `if renormalize_logits is not None` in place of `is True`.
AppendNormalizationWhenSet(a, processors) ==
    processors \o AppendIf(a.renormalize_logits # None,
                           Rule("LogitNormalization", "default", <<>>))

\* `if renormalize_logits is True: processors.append(LogitNormalization())`
AppendNormalization(a, processors) ==
    processors \o AppendIf(a.renormalize_logits = PyTrue,
                           Rule("LogitNormalization", "default", <<>>))

_get_logits_processor(a, logits_processor) ==
    IF EncoderNoRepeatError(a)
    THEN Raised("ValueError: encoder_no_repeat_ngram_size with decoder-only architecture")
    ELSE LET merged == _merge_criteria_processor_list(DefaultProcessors(a), logits_processor)
         IN  IF merged.error # NoError THEN merged
             ELSE Returned(AppendNormalization(a, merged.list))

(***************************************************************************)
(* _get_stopping_criteria.                                                 *)
(***************************************************************************)
\* Mutant: the length criterion allows one token more than max_length.
DefaultCriteriaOneLonger(max_length, max_time) ==
       AppendIf(max_length # None, Rule("MaxLength", "default", <<max_length + 1>>))
    \o AppendIf(max_time # None, Rule("MaxTime", "default", <<max_time>>))

DefaultCriteria(max_length, max_time) ==
       AppendIf(max_length # None, Rule("MaxLength", "default", <<max_length>>))
    \o AppendIf(max_time # None, Rule("MaxTime", "default", <<max_time>>))

_get_stopping_criteria(max_length, max_time, stopping_criteria) ==
    _merge_criteria_processor_list(DefaultCriteria(max_length, max_time), stopping_criteria)

(***************************************************************************)
(* The inputs of chain construction.  Every parameter is None or one of    *)
(* the values below; the lower value of a two-valued parameter is the one  *)
(* the code treats as "off" (0, 1.0, False).  bad_words_ids,               *)
(* prefix_allowed_tokens_fn, exponential_decay_length_penalty and the      *)
(* suppress lists are handles; forced_decoder_ids is the index of its last *)
(* forced token, the only part of it construction reads.                   *)
(***************************************************************************)
ParamValues ==
    [ diversity_penalty                |-> {0, 5},
      repetition_penalty               |-> {10, 12},
      no_repeat_ngram_size             |-> {0, 2},
      encoder_no_repeat_ngram_size     |-> {0, 2},
      bad_words_ids                    |-> {1},
      min_length                       |-> {0, 2},
      eos_token_id                     |-> {1},
      prefix_allowed_tokens_fn         |-> {1},
      forced_bos_token_id              |-> {2},
      forced_eos_token_id              |-> {1},
      remove_invalid_values            |-> {PyFalse, PyTrue},
      exponential_decay_length_penalty |-> {1},
      suppress_tokens                  |-> {1},
      begin_suppress_tokens            |-> {1},
      forced_decoder_ids               |-> {1},
      renormalize_logits               |-> {PyFalse, PyTrue},
      max_time                         |-> {5},
      is_encoder_decoder               |-> {PyTrue} ]

Tunable == DOMAIN ParamValues
Lo(p) == CHOOSE v \in ParamValues[p] : \A w \in ParamValues[p] : v <= w
Hi(p) == CHOOSE v \in ParamValues[p] : \A w \in ParamValues[p] : v >= w
TwoValued == {p \in Tunable : Lo(p) # Hi(p)}

FixedArgs ==
    [ max_length |-> 3, input_ids_seq_length |-> 1, num_beams |-> 2, num_beam_groups |-> 1 ]

\* The parameters in S are set, those of T to their upper value; the rest are None
\* (config.is_encoder_decoder, a Boolean, is False unless it is in S).
ArgsOf(S, T, max_length) ==
    [ p \in Tunable \cup DOMAIN FixedArgs |->
        IF p = "max_length" THEN max_length
        ELSE IF p \in DOMAIN FixedArgs THEN FixedArgs[p]
        ELSE IF p \in T THEN Hi(p)
        ELSE IF p \in S THEN Lo(p)
        ELSE IF p = "is_encoder_decoder" THEN PyFalse
        ELSE None ]

ProcessorTypes == {"MinLength", "LogitNormalization", "Custom"}
CriteriaTypes == {"MaxLength", "MaxTime", "Custom"}
CustomLists(types) == SeqsUpTo({Rule(t, "caller", <<>>) : t \in types}, MaxCustom)

NoCall == [fn |-> "none", args |-> ArgsOf({}, {}, None), custom |-> <<>>]

IdleChain == call = NoCall /\ built = Returned(<<>>)
IdleCache == cache_call = [past |-> <<>>, beam_idx |-> <<>>] /\ reordered_past = <<>>

(***************************************************************************)
(* Chain construction as a state machine: one call of either builder.      *)
(***************************************************************************)
CallGetLogitsProcessor ==
    /\ call.fn = "none"
    /\ \E S \in SUBSET (Tunable \ {"max_time"}) :
         /\ Cardinality(S) <= MaxSet
         /\ \E T \in SUBSET (S \cap TwoValued),
               c \in CustomLists(ProcessorTypes) :
              LET a == ArgsOf(S, T, FixedArgs.max_length)
              IN  /\ call' = [fn |-> "_get_logits_processor", args |-> a, custom |-> c]
                  /\ built' = _get_logits_processor(a, c)
    /\ UNCHANGED <<cacheVars, searchVars, poolVars>>

CallGetStoppingCriteria ==
    /\ call.fn = "none"
    /\ \E S \in SUBSET {"max_time"}, m \in {None, 2, 3}, c \in CustomLists(CriteriaTypes) :
         LET a == ArgsOf(S, {}, m)
         IN  /\ call' = [fn |-> "_get_stopping_criteria", args |-> a, custom |-> c]
             /\ built' = _get_stopping_criteria(a.max_length, a.max_time, c)
    /\ UNCHANGED <<cacheVars, searchVars, poolVars>>


(***************************************************************************)
(* _reorder_cache.  past is a tuple of layers, a layer a tuple of cached   *)
(* states (self-attention key and value, then the cross-attention states), *)
(* a cached state a tensor whose first axis is the beam axis: here the     *)
(* sequence of its slices.                                                 *)
(***************************************************************************)
\* tensor.index_select(0, index): slice i of the result is slice index[i] of tensor
index_select(tensor, index) == [i \in 1..Len(index) |-> tensor[index[i] + 1]]

\* layer_past[:k] and layer_past[k:]
Take(s, k) == SubSeq(s, 1, IF Len(s) < k THEN Len(s) ELSE k)
Drop(s, k) == SubSeq(s, k + 1, Len(s))

\* Mutant: `layer_past[:1]`, the cached value is left behind with the cross-attention states.
ReorderKeysOnly(past, beam_idx) ==
    [l \in DOMAIN past |->
        [e \in DOMAIN Take(past[l], 1) |-> index_select(past[l][e], beam_idx)]
            \o Drop(past[l], 1)]

\* Mutant: every cached state of the layer is reordered.
ReorderEveryState(past, beam_idx) ==
    [l \in DOMAIN past |->
        [e \in DOMAIN past[l] |-> index_select(past[l][e], beam_idx)]]

_reorder_cache(past, beam_idx) ==
    [l \in DOMAIN past |->
        [e \in DOMAIN Take(past[l], 2) |-> index_select(past[l][e], beam_idx)]
            \o Drop(past[l], 2)]

(***************************************************************************)
(* Caches the reordering is applied to: layers of two or four cached       *)
(* states over slots beam slots.  Slices of the self-attention states      *)
(* differ from slot to slot; slices of the cross-attention states are      *)
(* shared by the two beams of an example.                                  *)
(***************************************************************************)
CachedState(l, e, slots) ==
    [i \in 1..slots |-> 100 * l + 10 * e + (IF e <= 2 THEN i - 1 ELSE (i - 1) \div 2)]

CacheOf(layers, states, slots) ==
    [l \in 1..layers |-> [e \in 1..states |-> CachedState(l, e, slots)]]

CallReorderCache ==
    /\ cache_call.beam_idx = <<>>
    /\ \E layers \in 1..MaxLayers, states \in {2, 4}, slots \in 2..MaxSlots :
         \E beam_idx \in [1..slots -> 0..(slots - 1)] :
            LET past == CacheOf(layers, states, slots)
            IN  /\ cache_call' = [past |-> past, beam_idx |-> beam_idx]
                /\ reordered_past' = _reorder_cache(past, beam_idx)
    /\ UNCHANGED <<chainVars, searchVars, poolVars>>


(***************************************************************************)
(* Scores.  A log-probability is an integer number of bits; NegInf is      *)
(* float("-inf") and MinusBig the -1e9 of the initial beam scores.  A      *)
(* float32 of magnitude 1e9 absorbs an addend the size of a                *)
(* log-probability, and -inf absorbs everything.                           *)
(***************************************************************************)
NegInf == -2000000000
MinusBig == -1000000000

\* The not-a-number score: every sum with it is NaN, every comparison with it is false.
NaN == 2000000000
IsNaN(x) == x = NaN

AddScore(token_score, beam_score) ==
    IF IsNaN(token_score) \/ IsNaN(beam_score) THEN NaN
    ELSE IF token_score = NegInf \/ beam_score = NegInf THEN NegInf
    ELSE IF beam_score <= MinusBig THEN beam_score
    ELSE token_score + beam_score

RECURSIVE Pow(_, _)
Pow(b, e) == IF e = 0 THEN 1 ELSE b * Pow(b, e - 1)

RECURSIVE Log2Floor(_)
Log2Floor(n) == IF n <= 1 THEN 0 ELSE 1 + Log2Floor(n \div 2)

RECURSIVE SumOver(_, _)
SumOver(f, S) ==
    IF S = {} THEN 0
    ELSE LET x == CHOOSE y \in S : TRUE IN f[x] + SumOver(f, S \ {x})

MinOf(S) == CHOOSE x \in S : \A y \in S : x <= y

(***************************************************************************)
(* nn.functional.log_softmax over one row of logits, in base two:          *)
(* logit - log2(sum of 2^logit), the logarithm rounded down.  The result   *)
(* does not change when a constant is added to every logit of the row.  A  *)
(* NaN logit makes the sum, and with it every entry of the row, NaN.       *)
(***************************************************************************)
log_softmax(row) ==
    IF \E t \in DOMAIN row : IsNaN(row[t])
    THEN [t \in DOMAIN row |-> NaN]
    ELSE LET low == MinOf(Range(row))
             lse == low + Log2Floor(SumOver([t \in DOMAIN row |-> Pow(2, row[t] - low)],
                                            DOMAIN row))
         IN  [t \in DOMAIN row |-> row[t] - lse]

(***************************************************************************)
(* Tokens.  A row of scores has one entry per token id 0..VocabSize-1, at  *)
(* position id + 1.                                                        *)
(***************************************************************************)
VocabSize == 3
PadToken == 0
EosToken == 1
DecoderStartToken == 2

\* The scoring model's answer for one row: it prefers no token, the end of sequence,
\* or the last token of the vocabulary.
LogitRows ==
    {[t \in 1..VocabSize |-> IF t = best THEN 1 ELSE 0] : best \in {0, EosToken + 1, VocabSize}}

\* An answer of a model that has diverged: a NaN among the logits of the row.
InvalidRows == {[t \in 1..VocabSize |-> IF t = VocabSize THEN NaN ELSE 0]}

(***************************************************************************)
(* torch.topk(scores, k, largest=True, sorted=True) over a flattened row:  *)
(* the 0-based indices of the k largest entries, largest first.  The call  *)
(* does not say which of several equal entries it takes, nor in which      *)
(* order: TopKOrders is every answer it may give, topk the one that takes  *)
(* equal entries by lower index.  NaN counts as larger than every number.  *)
(***************************************************************************)
RECURSIVE TopKOrders(_, _, _)
TopKOrders(v, k, taken) ==
    IF k = 0 THEN {<<>>}
    ELSE LET left == DOMAIN v \ taken
             bests == {i \in left : \A j \in left : v[i] >= v[j]}
         IN  UNION {{<<i - 1>> \o rest : rest \in TopKOrders(v, k - 1, taken \cup {i})} :
                       i \in bests}

RECURSIVE TopKFrom(_, _, _)
TopKFrom(v, k, taken) ==
    IF k = 0 THEN <<>>
    ELSE LET left == DOMAIN v \ taken
             best == CHOOSE i \in left :
                        \A j \in left : v[i] > v[j] \/ (v[i] = v[j] /\ i <= j)
         IN  <<best - 1>> \o TopKFrom(v, k - 1, taken \cup {best})

topk(v, k) == TopKFrom(v, k, {})

\* scores.view(batch_size, num_beams * vocab_size)[b]: the rows of group b, concatenated
RECURSIVE Concat(_)
Concat(rows) == IF rows = <<>> THEN <<>> ELSE Head(rows) \o Concat(Tail(rows))

GroupRows(matrix, b, num_beams) == SubSeq(matrix, (b - 1) * num_beams + 1, b * num_beams)

(***************************************************************************)
(* BeamSearchScorer and its per-example BeamHypotheses (imported from      *)
(* ..utils), after section 4.3 of the specification.  A scorer is          *)
(*   [num_beams, do_early_stopping, length_penalty, num_beam_hyps_to_keep, *)
(*    beam_hyps, done]                                                     *)
(* with beam_hyps[b] the finished hypotheses of example b in the order of  *)
(* insertion, each [ids, score], and done[b] whether example b is done.    *)
(* A hypothesis ranks by score / length ^ length_penalty.                  *)
(***************************************************************************)
\* score1 / len1^p > score2 / len2^p, without division
RanksAbove(h1, h2, length_penalty) ==
    IF IsNaN(h1.score) \/ IsNaN(h2.score) THEN FALSE
    ELSE h1.score * Pow(Len(h2.ids), length_penalty)
            > h2.score * Pow(Len(h1.ids), length_penalty)

\* The position of the worst hypothesis: the lowest rank, the earliest inserted of equals.
WorstOf(hyps, length_penalty) ==
    LET lowest == {w \in DOMAIN hyps :
                      \A j \in DOMAIN hyps : ~RanksAbove(hyps[w], hyps[j], length_penalty)}
    IN  MinOf(lowest)

Without(s, k) == SubSeq(s, 1, k - 1) \o SubSeq(s, k + 1, Len(s))

\* Mutant: a full finished set takes no newcomer.
BeamHypothesesAddWhileRoom(hyps, hyp, num_beams, length_penalty) ==
    IF Len(hyps) < num_beams THEN Append(hyps, hyp) ELSE hyps

\* Mutant: the finished set is not bounded.
BeamHypothesesAddUnbounded(hyps, hyp, num_beams, length_penalty) == Append(hyps, hyp)

\* Mutant: a full finished set makes room by dropping its oldest hypothesis.
BeamHypothesesAddDropOldest(hyps, hyp, num_beams, length_penalty) ==
    IF Len(hyps) < num_beams THEN Append(hyps, hyp) ELSE Append(Tail(hyps), hyp)

\* Insert into the bounded finished set: a full set keeps the newcomer only if it ranks
\* above the worst retained hypothesis, which it then replaces.
BeamHypothesesAdd(hyps, hyp, num_beams, length_penalty) ==
    IF Len(hyps) < num_beams THEN Append(hyps, hyp)
    ELSE LET w == WorstOf(hyps, length_penalty)
         IN  IF RanksAbove(hyp, hyps[w], length_penalty)
             THEN Append(Without(hyps, w), hyp)
             ELSE hyps

\* A group is done when its finished set is full and either early stopping is on or the
\* best candidate of the step, at the current length, cannot rank above the worst retained.
BeamHypothesesIsDone(hyps, best_sum_logprobs, cur_len, scorer) ==
    /\ Len(hyps) >= scorer.num_beams
    /\ \/ scorer.do_early_stopping
       \/ LET worst == hyps[WorstOf(hyps, scorer.length_penalty)]
          IN  IF IsNaN(worst.score) \/ IsNaN(best_sum_logprobs) THEN FALSE
              ELSE worst.score * Pow(cur_len, scorer.length_penalty)
                      >= best_sum_logprobs * Pow(Len(worst.ids), scorer.length_penalty)

\* A finished set on its own: [num_beams, length_penalty, beams, inserted], inserted the
\* hypotheses handed to add so far, in order.
NewPool(num_beams, length_penalty) ==
    [num_beams |-> num_beams, length_penalty |-> length_penalty,
     beams |-> <<>>, inserted |-> <<>>]

IdlePool == pool = NewPool(0, 0)

Dummy(pad_token_id) == [score |-> 0, token |-> pad_token_id, index |-> 0]

\* Steps 3 and 4 for one group: walk the candidates in order until num_beams live ones
\* are found; a candidate predicting eos completes a hypothesis.
RECURSIVE WalkCandidates(_, _, _, _, _, _)
WalkCandidates(cands, i, hyps, live, input_ids, c) ==
    IF i > Len(cands) \/ Len(live) = c.num_beams
    THEN [hyps |-> hyps, live |-> live]
    ELSE IF c.eos_token_id # None /\ cands[i].token = c.eos_token_id
         THEN WalkCandidates(cands, i + 1,
                  BeamHypothesesAdd(hyps,
                      [ids |-> input_ids[cands[i].index + 1], score |-> cands[i].score],
                      c.num_beams, c.length_penalty),
                  live, input_ids, c)
         ELSE WalkCandidates(cands, i + 1, hyps, Append(live, cands[i]), input_ids, c)

RECURSIVE PadLive(_, _, _)
PadLive(live, n, pad_token_id) ==
    IF Len(live) >= n THEN live ELSE PadLive(Append(live, Dummy(pad_token_id)), n, pad_token_id)

\* process for group b: [hyps, done, live]
ProcessGroup(scorer, b, input_ids, next_scores, next_tokens, next_indices, pad_token_id, eos_token_id) ==
    IF scorer.done[b]
    THEN [hyps |-> scorer.beam_hyps[b], done |-> TRUE,
          live |-> PadLive(<<>>, scorer.num_beams, pad_token_id)]
    ELSE LET cands == [k \in DOMAIN next_scores |->
                          [score |-> next_scores[k], token |-> next_tokens[k],
                           index |-> (b - 1) * scorer.num_beams + next_indices[k]]]
             c == [num_beams |-> scorer.num_beams, length_penalty |-> scorer.length_penalty,
                   eos_token_id |-> eos_token_id]
             w == WalkCandidates(cands, 1, scorer.beam_hyps[b], <<>>, input_ids, c)
         IN  [hyps |-> w.hyps,
              done |-> BeamHypothesesIsDone(w.hyps, next_scores[1],
                                            Len(input_ids[1]), scorer),
              live |-> PadLive(w.live, scorer.num_beams, pad_token_id)]

\* BeamSearchScorer.process: the scorer after the step and the next beams
BeamSearchScorerProcess(scorer, input_ids, next_scores, next_tokens, next_indices, pad_token_id, eos_token_id) ==
    LET g == [b \in DOMAIN scorer.done |->
                 ProcessGroup(scorer, b, input_ids, next_scores[b], next_tokens[b],
                              next_indices[b], pad_token_id, eos_token_id)]
        live == Concat([b \in DOMAIN g |-> g[b].live])
    IN  [scorer |-> [scorer EXCEPT !.beam_hyps = [b \in DOMAIN g |-> g[b].hyps],
                                   !.done = [b \in DOMAIN g |-> g[b].done]],
         next_beam_scores |-> [i \in DOMAIN live |-> live[i].score],
         next_beam_tokens |-> [i \in DOMAIN live |-> live[i].token],
         next_beam_indices |-> [i \in DOMAIN live |-> live[i].index]]

\* BeamSearchScorer.is_done
ScorerIsDone(scorer) == \A b \in DOMAIN scorer.done : scorer.done[b]

\* BeamSearchScorer(batch_size, num_beams, length_penalty, do_early_stopping, num_beam_hyps_to_keep)
BeamSearchScorer(batch_size, num_beams, length_penalty, do_early_stopping, keep) ==
    [num_beams |-> num_beams, do_early_stopping |-> do_early_stopping,
     length_penalty |-> length_penalty, num_beam_hyps_to_keep |-> keep,
     beam_hyps |-> [b \in 1..batch_size |-> <<>>],
     done |-> [b \in 1..batch_size |-> FALSE]]

(***************************************************************************)
(* BeamSearchScorer.finalize: the live beams of a group that is not done   *)
(* are promoted, in beam order, while the finished set has room; the best  *)
(* num_beam_hyps_to_keep of each group are returned best first (equal      *)
(* ranks by earlier insertion), cut to max_length and padded on the right  *)
(* to the longest of them.                                                 *)
(***************************************************************************)
RECURSIVE Promote(_, _, _, _, _)
Promote(hyps, rows, scores, i, num_beams) ==
    IF i > Len(rows) \/ Len(hyps) >= num_beams THEN hyps
    ELSE Promote(Append(hyps, [ids |-> rows[i], score |-> scores[i]]),
                 rows, scores, i + 1, num_beams)

RECURSIVE BestFirst(_, _, _)
BestFirst(hyps, k, length_penalty) ==
    IF k = 0 \/ hyps = <<>> THEN <<>>
    ELSE LET best == MinOf({i \in DOMAIN hyps :
                               \A j \in DOMAIN hyps :
                                   ~RanksAbove(hyps[j], hyps[i], length_penalty)})
         IN  <<hyps[best]>> \o BestFirst(Without(hyps, best), k - 1, length_penalty)

MaxOf(S) == CHOOSE x \in S : \A y \in S : x >= y

PadTo(row, n, pad_token_id) ==
    [i \in 1..n |-> IF i <= Len(row) THEN row[i] ELSE pad_token_id]

BeamSearchScorerFinalize(scorer, input_ids, final_beam_scores, pad_token_id, max_length) ==
    LET hyps == [b \in DOMAIN scorer.done |->
                    IF scorer.done[b] THEN scorer.beam_hyps[b]
                    ELSE Promote(scorer.beam_hyps[b],
                                 GroupRows(input_ids, b, scorer.num_beams),
                                 GroupRows(final_beam_scores, b, scorer.num_beams),
                                 1, scorer.num_beams)]
        chosen == Concat([b \in DOMAIN hyps |->
                             BestFirst(hyps[b], scorer.num_beam_hyps_to_keep,
                                       scorer.length_penalty)])
        cut == [i \in DOMAIN chosen |->
                   IF max_length # None /\ Len(chosen[i].ids) > max_length
                   THEN SubSeq(chosen[i].ids, 1, max_length) ELSE chosen[i].ids]
        longest == IF cut = <<>> THEN 0 ELSE MaxOf({Len(cut[i]) : i \in DOMAIN cut})
    IN  [scorer |-> [scorer EXCEPT !.beam_hyps = hyps],
         sequences |-> [i \in DOMAIN cut |-> PadTo(cut[i], longest, pad_token_id)]]

(***************************************************************************)
(* StoppingCriteriaList (imported from ..utils).  MaxLengthCriteria is     *)
(* true when the token history has max_length columns; MaxTimeCriteria     *)
(* reads the clock and a caller's criterion is any predicate, so their     *)
(* verdicts are inputs of the step.  verdicts[i] is what criterion i       *)
(* returned; the list is their disjunction.                                *)
(***************************************************************************)
PossibleVerdicts(stopping_criteria, input_ids) ==
    {v \in [DOMAIN stopping_criteria -> BOOLEAN] :
        \A i \in DOMAIN stopping_criteria :
            stopping_criteria[i].type = "MaxLength"
                => (v[i] <=> Len(input_ids[1]) >= stopping_criteria[i].args[1])}

AnyVerdict(verdicts) == \E i \in DOMAIN verdicts : verdicts[i]

\* StoppingCriteriaList.max_length: that of the first MaxLengthCriteria, or None
CriteriaMaxLength(stopping_criteria) ==
    IF \E i \in DOMAIN stopping_criteria : stopping_criteria[i].type = "MaxLength"
    THEN stopping_criteria[MinOf({i \in DOMAIN stopping_criteria :
                                     stopping_criteria[i].type = "MaxLength"})].args[1]
    ELSE None

(***************************************************************************)
(* LogitsProcessorList (imported from ..utils) applied to the scores of    *)
(* one step.  MinLengthLogitsProcessor sets the end-of-sequence score to   *)
(* -inf while the history is shorter than min_length; the searches of      *)
(* this model run with chains of these rules only.                         *)
(***************************************************************************)
ApplyRule(rule, input_ids, scores) ==
    IF rule.type = "MinLength" /\ Len(input_ids[1]) < rule.args[1]
    THEN [r \in DOMAIN scores |->
             [t \in DOMAIN scores[r] |->
                 IF t = rule.args[2] + 1 THEN NegInf ELSE scores[r][t]]]
    ELSE scores

RECURSIVE ApplyChain(_, _, _)
ApplyChain(chain, input_ids, scores) ==
    IF chain = <<>> THEN scores
    ELSE ApplyChain(Tail(chain), input_ids, ApplyRule(Head(chain), input_ids, scores))

(***************************************************************************)
(* The scoring model.  prepare_inputs_for_generation cuts the decoder      *)
(* input to its last column when a past is given and passes the past on    *)
(* as past_key_values.  The model answers with one row of logits per row   *)
(* of its input (an input of the step) and with a fresh cache: one layer   *)
(* whose self-attention states hold, per row, the tokens attended so far   *)
(* and whose cross-attention states hold the encoder context of the row.   *)
(* An optional past is <<>> for None and <<cache>> otherwise.              *)
(***************************************************************************)
NoPast == <<>>
Some(cache) == <<cache>>

prepare_inputs_for_generation(decoder_input_ids, past, attention_mask, encoder_outputs) ==
    [decoder_input_ids |->
         IF past # NoPast
         THEN [r \in DOMAIN decoder_input_ids |->
                  <<decoder_input_ids[r][Len(decoder_input_ids[r])]>>]
         ELSE decoder_input_ids,
     past_key_values |-> past,
     attention_mask |-> attention_mask,
     encoder_outputs |-> encoder_outputs]

\* Mutant: the call of the stock generation loop, which hands the past to the model.
ModelInputsWithPast(q) ==
    prepare_inputs_for_generation(q.input_ids, q.past, q.attention_mask, q.encoder_outputs)

\* Mutant: the model is called without the encoder outputs.
ModelInputsWithoutEncoder(q) ==
    prepare_inputs_for_generation(q.input_ids, NoPast, q.attention_mask, <<>>)

\* The call in beam_search: input_ids, attention_mask and encoder_outputs only.
ModelInputs(q) ==
    prepare_inputs_for_generation(q.input_ids, NoPast, q.attention_mask, q.encoder_outputs)

ModelCache(inputs) ==
    LET attended == [r \in DOMAIN inputs.decoder_input_ids |->
                        IF inputs.past_key_values = NoPast
                        THEN inputs.decoder_input_ids[r]
                        ELSE inputs.past_key_values[1][1][1][r] \o inputs.decoder_input_ids[r]]
    IN  << <<attended, attended, inputs.encoder_outputs, inputs.encoder_outputs>> >>

\* A past handed in by the caller through model_kwargs: one layer, tagged by slot.
CallerPast(rows, encoder_outputs) ==
    Some(<< << [r \in 1..rows |-> <<r - 1>>], [r \in 1..rows |-> <<r - 1>>],
               encoder_outputs, encoder_outputs >> >>)

(***************************************************************************)
(* The state of one generate / beam_search call.                           *)
(***************************************************************************)
NoWarnings == {}
WarnNoCriteria == "UserWarning: no stopping_criteria defined"
WarnInputLength == "warning: input length >= max_length"
WarnDefaultMaxLength == "UserWarning: max_length defaults to config.max_length"

\* The arguments of a generate call; none before the call and in a direct beam_search.
NoArguments ==
    [batch_size |-> None, max_length |-> None, max_new_tokens |-> None,
     min_length |-> None, max_time |-> None, num_beams |-> None,
     num_beam_groups |-> None, num_return_sequences |-> None,
     length_penalty |-> None, early_stopping |-> FALSE,
     pad_token_id |-> None, eos_token_id |-> None,
     logits_processor |-> <<>>, stopping_criteria |-> <<>>, past |-> NoPast,
     return_dict_in_generate |-> FALSE, output_scores |-> FALSE]

\* `scores = () if (return_dict_in_generate and output_scores) else None`
NoScores == <<>>
InitialScores(return_dict_in_generate, output_scores) ==
    IF return_dict_in_generate /\ output_scores THEN Some(<<>>) ELSE NoScores

\* What beam_search hands back: the sequences, and the per-step scores if it returns any.
NothingReturned == [sequences |-> <<>>, scores |-> NoScores]

NotCalled ==
    [pc |-> "start", entry |-> "none", error |-> NoError, warnings |-> NoWarnings,
     stopping_criteria |-> <<>>, logits_processor |-> <<>>,
     scorer |-> BeamSearchScorer(0, 0, 0, FALSE, 0),
     pad_token_id |-> None, eos_token_id |-> None,
     attention_mask |-> <<>>, encoder_outputs |-> <<>>,
     input_ids |-> <<>>, beam_scores |-> <<>>, start_len |-> 0, cur_len |-> 0,
     past |-> NoPast,
     this_peer_finished |-> FALSE, flag |-> None, reduces |-> 0,
     next_tokens |-> <<>>, next_indices |-> <<>>,
     beam_next_tokens |-> <<>>, beam_idx |-> <<>>, verdicts |-> <<>>,
     calls |-> 0, last_call |-> prepare_inputs_for_generation(<<>>, NoPast, <<>>, <<>>),
     returned_cache |-> NoPast, sequences |-> <<>>,
     asked |-> NoArguments,
     return_dict_in_generate |-> FALSE, output_scores |-> FALSE,
     scores |-> NoScores, returned |-> NothingReturned,
     invalid_at |-> None,
     next_token_logits |-> <<>>, next_token_scores_processed |-> <<>>,
     next_token_scores |-> <<>>, finalized |-> <<>>, encoder_passes |-> 0]

Fail(q, e) == [q EXCEPT !.pc = "error", !.error = e]

\* Mutant: the warning about an empty criteria list is not given.
NeverWarnNoCriteria(stopping_criteria) == NoWarnings

\* `if len(stopping_criteria) == 0: warnings.warn(...)`
WarnIfNoCriteria(stopping_criteria) ==
    IF Len(stopping_criteria) = 0 THEN {WarnNoCriteria} ELSE NoWarnings

\* Mutant: only the first row of the whole batch starts at 0.
InitialBeamScoresFirstRow(batch_size, num_beams) ==
    [i \in 1..(batch_size * num_beams) |-> IF i = 1 THEN 0 ELSE MinusBig]

\* beam_scores = zeros((batch_size, num_beams)); beam_scores[:, 1:] = -1e9; flattened
InitialBeamScores(batch_size, num_beams) ==
    [i \in 1..(batch_size * num_beams) |-> IF (i - 1) % num_beams = 0 THEN 0 ELSE MinusBig]

\* Mutant: the rows of input_ids are not counted.
BatchMismatchIgnored(num_beams, batch_size, batch_beam_size) == FALSE

\* `if num_beams * batch_size != batch_beam_size: raise ValueError(...)`
BatchMismatch(num_beams, batch_size, batch_beam_size) ==
    num_beams * batch_size # batch_beam_size

(***************************************************************************)
(* beam_search up to the head of its loop: defaults, the warning about an  *)
(* empty criteria list, the check of the batch dimension, the initial      *)
(* beam scores.  a is the record of the arguments.                         *)
(***************************************************************************)
EnterBeamSearch(q, a) ==
    LET batch_size == Len(a.beam_scorer.beam_hyps)
        num_beams == a.beam_scorer.num_beams
        entered == [q EXCEPT
            !.warnings = @ \cup WarnIfNoCriteria(a.stopping_criteria),
            !.stopping_criteria = a.stopping_criteria,
            !.logits_processor = a.logits_processor,
            !.scorer = a.beam_scorer,
            !.pad_token_id = a.pad_token_id,
            !.eos_token_id = a.eos_token_id,
            !.attention_mask = a.attention_mask,
            !.encoder_outputs = a.encoder_outputs,
            !.input_ids = a.input_ids,
            !.past = a.past,
            !.return_dict_in_generate = a.return_dict_in_generate,
            !.output_scores = a.output_scores]
    IN  IF BatchMismatch(num_beams, batch_size, Len(a.input_ids))
        THEN Fail(entered, "ValueError: batch dimension of input_ids")
        ELSE [entered EXCEPT
                 !.pc = "top",
                 !.start_len = Len(a.input_ids[1]),
                 !.cur_len = Len(a.input_ids[1]),
                 !.scores = InitialScores(a.return_dict_in_generate, a.output_scores),
                 !.beam_scores = InitialBeamScores(batch_size, num_beams)]

(***************************************************************************)
(* One iteration of the loop, from the model call to the exit test.        *)
(***************************************************************************)
\* Mutant: only the stopping criteria end the loop.
LoopExitOnCriteriaOnly(is_done, criteria_met) == criteria_met

\* `if beam_scorer.is_done or stopping_criteria(input_ids, scores)`
LoopExit(is_done, criteria_met) == is_done \/ criteria_met

\* BartModel.forward: `if encoder_outputs is None: encoder_outputs = self.encoder(...)`;
\* the empty tuple stands for no encoder outputs.
EncoderPasses(inputs) == IF inputs.encoder_outputs = <<>> THEN 1 ELSE 0

\* The model call of the iteration.
CallModel(q) ==
    LET inputs == ModelInputs(q)
    IN  [q EXCEPT !.calls = @ + 1, !.last_call = inputs,
                  !.returned_cache = Some(ModelCache(inputs)),
                  !.encoder_passes = @ + EncoderPasses(inputs)]

\* Mutant: a finished process goes round the loop without calling the model.
SkipStepWithoutModel(q) == [q EXCEPT !.cur_len = @ + 1, !.pc = "top"]

\* `if synced_gpus and this_peer_finished: cur_len = cur_len + 1; continue`
SkipStep(q) == [CallModel(q) EXCEPT !.cur_len = @ + 1, !.pc = "top"]

\* `if return_dict_in_generate: if output_scores: scores += (next_token_scores_processed,)`
StoreScores(q, processed) ==
    IF q.return_dict_in_generate /\ q.output_scores
    THEN Some(Append(q.scores[1], processed))
    ELSE q.scores

\* Some logit of the answer is not a finite number.
HasInvalid(logits) == \E r \in DOMAIN logits : \E t \in DOMAIN logits[r] : IsNaN(logits[r][t])

\* Mutant: the cumulative beam scores are added before the chain is applied.
RankedScoresAddFirst(q, logits) ==
    LET next_token_scores == [r \in DOMAIN logits |-> log_softmax(logits[r])]
        summed == [r \in DOMAIN next_token_scores |->
                      [t \in DOMAIN next_token_scores[r] |->
                          AddScore(next_token_scores[r][t], q.beam_scores[r])]]
        processed == ApplyChain(q.logits_processor, q.input_ids, summed)
    IN  [processed |-> processed, summed |-> processed]

\* Mutant: the chain is not applied to the scores of the step.
RankedScoresUnprocessed(q, logits) ==
    LET next_token_scores == [r \in DOMAIN logits |-> log_softmax(logits[r])]
    IN  [processed |-> next_token_scores,
         summed |-> [r \in DOMAIN next_token_scores |->
                        [t \in DOMAIN next_token_scores[r] |->
                            AddScore(next_token_scores[r][t], q.beam_scores[r])]]]

\* `next_token_scores = log_softmax(next_token_logits)`, then the chain on these scores
\* with the history, then `next_token_scores_processed + beam_scores[:, None]`.
RankedScores(q, logits) ==
    LET next_token_scores == [r \in DOMAIN logits |-> log_softmax(logits[r])]
        processed == ApplyChain(q.logits_processor, q.input_ids, next_token_scores)
    IN  [processed |-> processed,
         summed |-> [r \in DOMAIN processed |->
                        [t \in DOMAIN processed[r] |->
                            AddScore(processed[r][t], q.beam_scores[r])]]]

\* `next_token_scores.view(batch_size, num_beams * vocab_size)`: one vector per group.
Flattened(summed, groups, num_beams) ==
    [b \in groups |-> Concat(GroupRows(summed, b, num_beams))]

\* Mutant: the parent beam is taken as the remainder.
ParentOfRemainder(f, vocab_size) == f % vocab_size

\* `next_indices = torch_int_div(next_tokens, vocab_size)`
ParentOf(f, vocab_size) == f \div vocab_size

\* `next_tokens = next_tokens % vocab_size`
TokenOf(f, vocab_size) == f % vocab_size

\* Mutant: every row is continued in place, whatever its parent.
NextInputIdsInPlace(input_ids, beam_idx, beam_next_tokens) ==
    [i \in DOMAIN beam_idx |-> Append(input_ids[i], beam_next_tokens[i])]

\* `input_ids = torch.cat([input_ids[beam_idx, :], beam_next_tokens.unsqueeze(-1)], dim=-1)`
NextInputIds(input_ids, beam_idx, beam_next_tokens) ==
    [i \in DOMAIN beam_idx |-> Append(input_ids[beam_idx[i] + 1], beam_next_tokens[i])]

\* From the ranked scores and the candidates taken from them (top[b] holds the
\* flattened indices of group b, best first) to the incremented cur_len.  invalid_at is
\* the history length at the first step whose logits were not all finite.
StepFrom(q, logits, ranked, top) ==
    LET num_beams == q.scorer.num_beams
        groups == DOMAIN q.scorer.done
        flat == Flattened(ranked.summed, groups, num_beams)
        next_scores == [b \in groups |-> [k \in DOMAIN top[b] |-> flat[b][top[b][k] + 1]]]
        next_indices == [b \in groups |->
                            [k \in DOMAIN top[b] |-> ParentOf(top[b][k], VocabSize)]]
        next_tokens == [b \in groups |->
                           [k \in DOMAIN top[b] |-> TokenOf(top[b][k], VocabSize)]]
        out == BeamSearchScorerProcess(q.scorer, q.input_ids, next_scores, next_tokens,
                                       next_indices, q.pad_token_id, q.eos_token_id)
        beam_idx == out.next_beam_indices
    IN  [CallModel(q) EXCEPT
            !.next_token_logits = logits,
            !.next_token_scores_processed = ranked.processed,
            !.next_token_scores = next_scores,
            !.scorer = out.scorer,
            !.next_tokens = next_tokens,
            !.next_indices = next_indices,
            !.beam_scores = out.next_beam_scores,
            !.beam_next_tokens = out.next_beam_tokens,
            !.beam_idx = beam_idx,
            !.input_ids = NextInputIds(q.input_ids, beam_idx, out.next_beam_tokens),
            !.past = IF q.past # NoPast THEN Some(_reorder_cache(q.past[1], beam_idx))
                     ELSE q.past,
            !.scores = StoreScores(q, ranked.processed),
            !.invalid_at = IF @ = None /\ HasInvalid(logits) THEN q.cur_len ELSE @,
            !.cur_len = @ + 1]

\* The step with the candidates of `torch.topk(next_token_scores, 2 * num_beams, dim=1,
\* largest=True, sorted=True)`, equal scores taken in the order of their indices.
Step(q, logits) ==
    LET ranked == RankedScores(q, logits)
        groups == DOMAIN q.scorer.done
        flat == Flattened(ranked.summed, groups, q.scorer.num_beams)
    IN  StepFrom(q, logits, ranked, [b \in groups |-> topk(flat[b], 2 * q.scorer.num_beams)])

\* The verdicts the criteria can return after the step; none is asked once the pool is done.
EvaluatedVerdicts(q) ==
    IF ScorerIsDone(q.scorer)
    THEN {[i \in DOMAIN q.stopping_criteria |-> FALSE]}
    ELSE PossibleVerdicts(q.stopping_criteria, q.input_ids)

\* The exit test: break, or mark this peer finished under synced_gpus.
Conclude(q, verdicts, synced) ==
    LET exit == LoopExit(ScorerIsDone(q.scorer), AnyVerdict(verdicts))
    IN  [q EXCEPT !.verdicts = verdicts,
                  !.pc = IF exit /\ ~synced THEN "final" ELSE "top",
                  !.this_peer_finished = IF exit /\ synced THEN TRUE ELSE @]

(***************************************************************************)
(* beam_search after its loop: finalize with the max_length of the         *)
(* criteria, and return.                                                   *)
(***************************************************************************)
\* Mutant: the token history is returned as it stands, without finalize.
ReturnHistory(q) ==
    [q EXCEPT !.pc = "done", !.sequences = q.input_ids,
              !.returned = [sequences |-> q.input_ids, scores |-> NoScores]]

Return(q) ==
    LET out == BeamSearchScorerFinalize(q.scorer, q.input_ids, q.beam_scores,
                                        q.pad_token_id,
                                        CriteriaMaxLength(q.stopping_criteria))
    IN  [q EXCEPT !.pc = "done", !.scorer = out.scorer, !.sequences = out.sequences,
                  !.returned = [sequences |-> out.sequences, scores |-> NoScores],
                  !.finalized = Append(@, CriteriaMaxLength(q.stopping_criteria))]

(***************************************************************************)
(* generate from step 5 on: the length arguments, the chain, the criteria, *)
(* the scorer, the inputs expanded to num_beams rows per example, and the  *)
(* call of beam_search.  g is the record of the arguments after step 1     *)
(* resolved them against the configuration.                                *)
(***************************************************************************)
ConfigMaxLength == MaxLen
ConfigMinLength == 0

\* torch.arange(batch_size).view(-1, 1).repeat(1, num_beams).view(-1)
\* Mutant: the two lengths are never found to be both set.
BothLengthsNeverSet(max_length, max_new_tokens) == FALSE

\* `elif max_length is not None and max_new_tokens is not None: raise ValueError`
BothLengthsSet(max_length, max_new_tokens) == max_length # None /\ max_new_tokens # None

\* Mutant: one group more than beams is let through.
TooManyGroupsByTwo(num_beam_groups, num_beams) == num_beam_groups > num_beams + 1

\* `if num_beam_groups > num_beams: raise ValueError`
TooManyGroups(num_beam_groups, num_beams) == num_beam_groups > num_beams

\* Mutant: one returned sequence more than beams is let through.
TooManySequencesByTwo(num_return_sequences, num_beams) ==
    num_return_sequences > num_beams + 1

\* `if num_return_sequences > num_beams: raise ValueError`
TooManySequences(num_return_sequences, num_beams) == num_return_sequences > num_beams

expanded_return_idx(batch_size, num_beams) ==
    [i \in 1..(batch_size * num_beams) |-> (i - 1) \div num_beams]

generate(q, g) ==
    LET gen_input_ids == [b \in 1..g.batch_size |-> <<DecoderStartToken>>]
        input_ids_seq_length == Len(gen_input_ids[1])
        defaulted == g.max_length = None /\ g.max_new_tokens = None
        given == IF g.max_length = None /\ g.max_new_tokens # None
                 THEN g.max_new_tokens + input_ids_seq_length
                 ELSE g.max_length
        max_length == IF given # None THEN given ELSE ConfigMaxLength
        min_length == IF g.min_length # None THEN g.min_length ELSE ConfigMinLength
        a == [ArgsOf({}, {}, max_length) EXCEPT
                 !.min_length = min_length,
                 !.eos_token_id = g.eos_token_id,
                 !.input_ids_seq_length = input_ids_seq_length,
                 !.num_beams = g.num_beams,
                 !.num_beam_groups = g.num_beam_groups,
                 !.is_encoder_decoder = PyTrue]
        logits_processor == _get_logits_processor(a, g.logits_processor)
        stopping_criteria == _get_stopping_criteria(max_length, g.max_time, g.stopping_criteria)
        idx == expanded_return_idx(g.batch_size, g.num_beams)
        called == [q EXCEPT !.entry = "generate", !.asked = g, !.encoder_passes = 1]
        started == [called EXCEPT
            !.warnings = (IF defaulted THEN {WarnDefaultMaxLength} ELSE NoWarnings)
                         \cup (IF input_ids_seq_length >= max_length
                               THEN {WarnInputLength} ELSE NoWarnings)]
    IN  IF BothLengthsSet(g.max_length, g.max_new_tokens)
        THEN Fail(called,
                  "ValueError: both max_new_tokens and max_length have been set")
        ELSE IF min_length # None /\ min_length > max_length
        THEN Fail([called EXCEPT !.warnings = IF defaulted THEN {WarnDefaultMaxLength}
                                                  ELSE NoWarnings],
                  "ValueError: unfeasible length constraints")
        ELSE IF TooManyGroups(g.num_beam_groups, g.num_beams)
        THEN Fail(started, "ValueError: num_beam_groups has to be smaller or equal to num_beams")
        ELSE IF logits_processor.error # NoError
        THEN Fail(started, logits_processor.error)
        ELSE IF stopping_criteria.error # NoError
        THEN Fail(started, stopping_criteria.error)
        ELSE IF TooManySequences(g.num_return_sequences, g.num_beams)
        THEN Fail(started,
                  "ValueError: num_return_sequences has to be smaller or equal to num_beams")
        ELSE IF CriteriaMaxLength(stopping_criteria.list) = None
        THEN Fail(started, "ValueError: max_length needs to be a stopping_criteria")
        ELSE EnterBeamSearch(started,
                 [input_ids |-> index_select(gen_input_ids, idx),
                  attention_mask |-> index_select([b \in 1..g.batch_size |-> 1], idx),
                  encoder_outputs |-> index_select([b \in 1..g.batch_size |-> b], idx),
                  beam_scorer |-> BeamSearchScorer(g.batch_size, g.num_beams,
                                                   g.length_penalty, g.early_stopping,
                                                   g.num_return_sequences),
                  logits_processor |-> logits_processor.list,
                  stopping_criteria |-> stopping_criteria.list,
                  pad_token_id |-> g.pad_token_id,
                  eos_token_id |-> g.eos_token_id,
                  past |-> g.past,
                  return_dict_in_generate |-> g.return_dict_in_generate,
                  output_scores |-> g.output_scores])

(***************************************************************************)
(* The searches.  peer[p] is the call of process p; Procs is one process,  *)
(* or NumPeers processes that run beam_search with synced_gpus and meet in *)
(* dist.all_reduce.  contrib[p] is what p has posted to the pending        *)
(* all-reduce (None: nothing).                                             *)
(***************************************************************************)
Procs == DOMAIN peer

StepCap == MaxLen        \* a search takes no step at this history length

\* The pairs <<return_dict_in_generate, output_scores>> a caller passes.
OutputRequests == {<<FALSE, FALSE>>, <<TRUE, TRUE>>}

MaxLengthCriteria(k) == Rule("MaxLength", "default", <<k>>)
CallerCriteria == Rule("Custom", "caller", <<>>)

\* The model's answers for `rows` rows: one for the first row, one shared by the others.
ModelAnswers(rows) ==
    {[r \in 1..rows |-> IF r = 1 THEN first ELSE rest] : first \in LogitRows, rest \in LogitRows}

\* The same, and the answers with a NaN in the first row.
AnswersWithInvalid(rows) ==
    {[r \in 1..rows |-> IF r = 1 THEN first ELSE rest] :
        first \in LogitRows \cup InvalidRows, rest \in LogitRows}

\* The answers in a distributed run (one row): end of sequence, or another token.
SyncedAnswers ==
    {<<[t \in 1..VocabSize |-> IF t = best THEN 1 ELSE 0]>> : best \in {EosToken + 1, VocabSize}}

IdlePeers ==
    /\ peer = [p \in {1} |-> NotCalled]
    /\ synced_gpus = FALSE
    /\ contrib = [p \in {1} |-> None]

\* generate(...) on one process
GenerateWith(p, batch_sizes) ==
    /\ ~synced_gpus
    /\ peer[p].pc = "start"
    /\ \E batch_size \in batch_sizes,
          max_length \in {None} \cup 1..MaxLen,
          max_new_tokens \in {None, 1},
          min_length \in {None, 2, MaxLen + 1},
          num_beams \in 1..MaxBeams,
          num_beam_groups \in {1, MaxBeams + 1},
          num_return_sequences \in {1, MaxBeams, MaxBeams + 1},
          early_stopping \in BOOLEAN,
          output \in OutputRequests,
          stopping_criteria \in {<<>>, <<Rule("MaxLength", "caller", <<2>>)>>} :
          peer' = [peer EXCEPT ![p] = generate(NotCalled,
                      [batch_size |-> batch_size,
                       max_length |-> max_length, max_new_tokens |-> max_new_tokens,
                       min_length |-> min_length, max_time |-> None,
                       num_beams |-> num_beams, num_beam_groups |-> num_beam_groups,
                       num_return_sequences |-> num_return_sequences,
                       length_penalty |-> 1, early_stopping |-> early_stopping,
                       pad_token_id |-> PadToken, eos_token_id |-> EosToken,
                       logits_processor |-> <<>>,
                       stopping_criteria |-> stopping_criteria,
                       past |-> NoPast,
                       return_dict_in_generate |-> output[1],
                       output_scores |-> output[2]])]
    /\ UNCHANGED <<chainVars, cacheVars, poolVars, synced_gpus, contrib>>

\* generate(...) for one example
Generate(p) == GenerateWith(p, {1})

\* generate(...) for a batch of examples
GenerateBatch(p) == GenerateWith(p, 1..MaxBatch)

\* beam_search(...) called directly on one process
BeamSearch(p) ==
    /\ ~synced_gpus
    /\ peer[p].pc = "start"
    /\ \E rows \in 1..MaxBeams, batch_size \in 1..2, num_beams \in 1..MaxBeams,
          early_stopping \in BOOLEAN, with_past \in BOOLEAN,
          stopping_criteria \in {<<>>, <<CallerCriteria>>}
                                \cup {<<MaxLengthCriteria(k)>> : k \in 2..MaxLen} :
          LET encoder_outputs == [r \in 1..rows |-> 1 + (r - 1) \div num_beams]
          IN  peer' = [peer EXCEPT ![p] = EnterBeamSearch(
                          [NotCalled EXCEPT !.entry = "beam_search"],
                          [input_ids |-> [r \in 1..rows |-> <<DecoderStartToken>>],
                           attention_mask |-> [r \in 1..rows |-> 1],
                           encoder_outputs |-> encoder_outputs,
                           beam_scorer |-> BeamSearchScorer(batch_size, num_beams, 1,
                                                            early_stopping, 1),
                           logits_processor |-> <<>>,
                           stopping_criteria |-> stopping_criteria,
                           pad_token_id |-> PadToken, eos_token_id |-> EosToken,
                           past |-> IF with_past THEN CallerPast(rows, encoder_outputs)
                                    ELSE NoPast,
                           return_dict_in_generate |-> FALSE,
                           output_scores |-> FALSE])]
    /\ UNCHANGED <<chainVars, cacheVars, poolVars, synced_gpus, contrib>>

\* beam_search(..., synced_gpus=True) on process p of a distributed run
SyncedBeamSearch(p) ==
    /\ synced_gpus
    /\ peer[p].pc = "start"
    /\ \E stopping_criteria \in {<<CallerCriteria>>, <<MaxLengthCriteria(MaxLen)>>} :
          peer' = [peer EXCEPT ![p] = EnterBeamSearch(
                      [NotCalled EXCEPT !.entry = "beam_search"],
                      [input_ids |-> <<<<DecoderStartToken>>>>,
                       attention_mask |-> <<1>>,
                       encoder_outputs |-> <<p>>,
                       beam_scorer |-> BeamSearchScorer(1, 1, 1, TRUE, 1),
                       logits_processor |-> <<>>,
                       stopping_criteria |-> stopping_criteria,
                       pad_token_id |-> PadToken, eos_token_id |-> EosToken,
                       past |-> NoPast,
                       return_dict_in_generate |-> FALSE,
                       output_scores |-> FALSE])]
    /\ UNCHANGED <<chainVars, cacheVars, poolVars, synced_gpus, contrib>>

\* Mutant: a process always reports that it is still running.
ContributionAlwaysRunning(this_peer_finished) == 1

\* `torch.tensor(0.0 if this_peer_finished else 1.0)`
Contribution(this_peer_finished) == IF this_peer_finished THEN 0 ELSE 1

\* Mutant: the all-reduce takes the minimum of the contributions.
ReduceMin(posted) == MinOf(Range(posted))

\* `dist.all_reduce(this_peer_finished_flag, op=dist.ReduceOp.SUM)`
ReduceSum(posted) == SumOver(posted, DOMAIN posted)

\* Head of the loop under synced_gpus: post the flag and wait in the all-reduce.
Post(p) ==
    /\ synced_gpus
    /\ peer[p].pc = "top"
    /\ peer' = [peer EXCEPT ![p].pc = "wait"]
    /\ contrib' = [contrib EXCEPT ![p] = Contribution(peer[p].this_peer_finished)]
    /\ UNCHANGED <<chainVars, cacheVars, poolVars, synced_gpus>>

\* The collective completes once every process has posted; each receives the result.
AllReduce ==
    /\ synced_gpus
    /\ \A p \in Procs : peer[p].pc = "wait"
    /\ peer' = [p \in Procs |->
                   [peer[p] EXCEPT !.pc = "reduced", !.flag = ReduceSum(contrib),
                                   !.reduces = @ + 1]]
    /\ contrib' = [p \in Procs |-> None]
    /\ UNCHANGED <<chainVars, cacheVars, poolVars, synced_gpus>>

\* `if this_peer_finished_flag.item() == 0.0: break`
Break(p) ==
    /\ synced_gpus
    /\ peer[p].pc = "reduced"
    /\ peer[p].flag = 0
    /\ peer' = [peer EXCEPT ![p].pc = "final"]
    /\ UNCHANGED <<chainVars, cacheVars, poolVars, synced_gpus, contrib>>

\* The process is in the loop body: at its head, or past the all-reduce.
InBody(p) ==
    \/ ~synced_gpus /\ peer[p].pc = "top"
    \/ synced_gpus /\ peer[p].pc = "reduced" /\ peer[p].flag # 0

\* One iteration of a process that has not finished, the model answering from answers.
AdvanceWith(p, answers) ==
    /\ InBody(p)
    /\ ~(synced_gpus /\ peer[p].this_peer_finished)
    /\ peer[p].cur_len < StepCap
    /\ \E logits \in answers :
          LET stepped == Step(peer[p], logits)
          IN  \E verdicts \in EvaluatedVerdicts(stepped) :
                 peer' = [peer EXCEPT ![p] = Conclude(stepped, verdicts, synced_gpus)]
    /\ UNCHANGED <<chainVars, cacheVars, poolVars, synced_gpus, contrib>>

\* One iteration with finite logits.
Advance(p) ==
    AdvanceWith(p, IF synced_gpus THEN SyncedAnswers ELSE ModelAnswers(Len(peer[p].input_ids)))

\* One iteration with logits that may hold a NaN.
AdvanceAny(p) == AdvanceWith(p, AnswersWithInvalid(Len(peer[p].input_ids)))

\* beam_search(...) called directly for one step: max_length is one more than the
\* decoder start token.
BeamSearchOnce(p) ==
    /\ ~synced_gpus
    /\ peer[p].pc = "start"
    /\ \E shape \in ({1} \X (1..MaxBeams)) \cup {<<2, 1>>} :
          LET batch_size == shape[1]
              num_beams == shape[2]
              rows == batch_size * num_beams
          IN  peer' = [peer EXCEPT ![p] = EnterBeamSearch(
                          [NotCalled EXCEPT !.entry = "beam_search"],
                          [input_ids |-> [r \in 1..rows |-> <<DecoderStartToken>>],
                           attention_mask |-> [r \in 1..rows |-> 1],
                           encoder_outputs |-> [r \in 1..rows |-> 1 + (r - 1) \div num_beams],
                           beam_scorer |-> BeamSearchScorer(batch_size, num_beams, 1, FALSE, 1),
                           logits_processor |-> <<>>,
                           stopping_criteria |-> <<MaxLengthCriteria(2)>>,
                           pad_token_id |-> PadToken, eos_token_id |-> EosToken,
                           past |-> NoPast,
                           return_dict_in_generate |-> FALSE,
                           output_scores |-> FALSE])]
    /\ UNCHANGED <<chainVars, cacheVars, poolVars, synced_gpus, contrib>>

\* One iteration in which torch.topk may give equal scores in any order.
AdvanceUnordered(p) ==
    /\ InBody(p)
    /\ ~(synced_gpus /\ peer[p].this_peer_finished)
    /\ peer[p].cur_len < StepCap
    /\ \E logits \in ModelAnswers(Len(peer[p].input_ids)) :
          LET q == peer[p]
              ranked == RankedScores(q, logits)
              groups == DOMAIN q.scorer.done
              flat == Flattened(ranked.summed, groups, q.scorer.num_beams)
              orders == [b \in groups |-> TopKOrders(flat[b], 2 * q.scorer.num_beams, {})]
          IN  \E top \in {t \in [groups -> UNION Range(orders)] :
                               \A b \in groups : t[b] \in orders[b]} :
                 LET stepped == StepFrom(q, logits, ranked, top)
                 IN  \E verdicts \in EvaluatedVerdicts(stepped) :
                        peer' = [peer EXCEPT ![p] = Conclude(stepped, verdicts, synced_gpus)]
    /\ UNCHANGED <<chainVars, cacheVars, poolVars, synced_gpus, contrib>>

\* One iteration of a finished process that keeps its peers company.
Skip(p) ==
    /\ InBody(p)
    /\ synced_gpus /\ peer[p].this_peer_finished
    /\ peer[p].cur_len < StepCap
    /\ peer' = [peer EXCEPT ![p] = SkipStep(peer[p])]
    /\ UNCHANGED <<chainVars, cacheVars, poolVars, synced_gpus, contrib>>

\* beam_scorer.finalize and the return
Finalize(p) ==
    /\ peer[p].pc = "final"
    /\ peer' = [peer EXCEPT ![p] = Return(peer[p])]
    /\ UNCHANGED <<chainVars, cacheVars, poolVars, synced_gpus, contrib>>

Init == IdleChain /\ IdleCache /\ IdlePeers /\ IdlePool
Next ==
    \/ \E p \in Procs : Generate(p)
    \/ \E p \in Procs : BeamSearch(p)
    \/ \E p \in Procs : Advance(p)
    \/ \E p \in Procs : Finalize(p)
Spec == Init /\ [][Next]_vars

SyncInit ==
    /\ IdleChain /\ IdleCache /\ IdlePool
    /\ peer = [p \in 1..NumPeers |-> NotCalled]
    /\ synced_gpus = TRUE
    /\ contrib = [p \in 1..NumPeers |-> None]
SyncNext ==
    \/ AllReduce
    \/ \E p \in Procs : SyncedBeamSearch(p)
    \/ \E p \in Procs : Post(p)
    \/ \E p \in Procs : Break(p)
    \/ \E p \in Procs : Advance(p)
    \/ \E p \in Procs : Skip(p)
    \/ \E p \in Procs : Finalize(p)
SpecSync == SyncInit /\ [][SyncNext]_vars

\* The next statement of process p at the head of the loop or in the iteration of a
\* finished process (a process is sequential: one of these at a time).
Run(p) == SyncedBeamSearch(p) \/ Post(p) \/ Break(p) \/ Skip(p)

\* Every process runs on, and the collective completes when all have joined it.  Nothing
\* is assumed of the steps of an unfinished search (the stopping criteria decide those)
\* nor of finalize.
Fairness ==
    /\ WF_vars(AllReduce)
    /\ \A p \in 1..NumPeers : WF_vars(Run(p))
SpecSyncFair == SpecSync /\ Fairness

\* Chain construction alone, and cache reordering alone.
\* The searches with a scoring model that may answer NaN.
InvalidNext ==
    \/ \E p \in Procs : Generate(p)
    \/ \E p \in Procs : BeamSearch(p)
    \/ \E p \in Procs : AdvanceAny(p)
    \/ \E p \in Procs : Finalize(p)

SpecInvalid == Init /\ [][InvalidNext]_vars

\* One step of beam_search, equal scores in every order torch.topk may give them.
TiesNext ==
    \/ \E p \in Procs : BeamSearchOnce(p)
    \/ \E p \in Procs : AdvanceUnordered(p)
    \/ \E p \in Procs : Finalize(p)

SpecTies == Init /\ [][TiesNext]_vars

(***************************************************************************)
(* A finished set filled by a sequence of insertions of completed          *)
(* hypotheses: any number of beams and length penalty, hypotheses of       *)
(* lengths and scores whose ranks tie and cross under the penalties.       *)
(***************************************************************************)
PoolHypotheses ==
    {[ids |-> [i \in 1..n |-> PadToken], score |-> v] : n \in 1..2, v \in {-4, -2, -1}}

PoolInit ==
    /\ IdleChain /\ IdleCache /\ IdlePeers
    /\ \E num_beams \in 1..MaxBeams, length_penalty \in 0..2 :
          pool = NewPool(num_beams, length_penalty)

\* beam_hyp.add(hyp, sum_logprobs)
Insert ==
    /\ Len(pool.inserted) < MaxInserts
    /\ \E hyp \in PoolHypotheses :
          pool' = [pool EXCEPT
                      !.beams = BeamHypothesesAdd(@, hyp, pool.num_beams, pool.length_penalty),
                      !.inserted = Append(@, hyp)]
    /\ UNCHANGED <<chainVars, cacheVars, searchVars>>

PoolNext == Insert
SpecPool == PoolInit /\ [][PoolNext]_vars

\* The calls up to the head of the loop, for batches of examples.
EntryNext ==
    \/ \E p \in Procs : GenerateBatch(p)
    \/ \E p \in Procs : BeamSearch(p)

SpecEntry == Init /\ [][EntryNext]_vars

ChainInit == IdleChain /\ IdleCache /\ IdlePeers /\ IdlePool
ChainNext == CallGetLogitsProcessor \/ CallGetStoppingCriteria
SpecChain == ChainInit /\ [][ChainNext]_vars

CacheInit == IdleChain /\ IdleCache /\ IdlePeers /\ IdlePool
CacheNext == CallReorderCache
SpecCache == CacheInit /\ [][CacheNext]_vars

(***************************************************************************)
(*                              PROPERTIES                                 *)
(***************************************************************************)
\* A step of the loop body has completed and finalize has not yet run.
Stepped(q) == q.calls >= 1 /\ q.pc \in {"top", "final"}

\* What criterion i returns on the history: a MaxLengthCriteria compares the length,
\* any other returned what the step recorded.
CriterionTrue(q, i) ==
    IF q.stopping_criteria[i].type = "MaxLength"
    THEN Len(q.input_ids[1]) >= q.stopping_criteria[i].args[1]
    ELSE q.verdicts[i]

(***************************************************************************)
(* C1: without synced_gpus, after every completed step the loop exits to   *)
(* finalize if and only if the beam pool reports is_done or at least one   *)
(* configured stopping criterion returns true on the updated token         *)
(* history; otherwise it is back at the head of the loop.  (The criteria   *)
(* are not asked once the pool is done.)                                   *)
(***************************************************************************)
C1_LoopExitsIffDone ==
    \A p \in Procs :
        LET q == peer[p]
        IN  (~synced_gpus /\ Stepped(q)) =>
               /\ q.pc = "final" <=>
                     \/ ScorerIsDone(q.scorer)
                     \/ \E i \in DOMAIN q.stopping_criteria : CriterionTrue(q, i)
               /\ ~ScorerIsDone(q.scorer) =>
                     \A i \in DOMAIN q.stopping_criteria : q.verdicts[i] <=> CriterionTrue(q, i)

\* The pool ended a search whose length limit was not yet reached.
C1_Witness ==
    \E p \in Procs :
        LET q == peer[p]
        IN  /\ ~synced_gpus /\ Stepped(q) /\ q.pc = "final"
            /\ ScorerIsDone(q.scorer)
            /\ \E i \in DOMAIN q.stopping_criteria :
                  q.stopping_criteria[i].type = "MaxLength" /\ ~CriterionTrue(q, i)

\* Process p makes a model call in this transition.
Calls(p) == peer'[p].calls = peer[p].calls + 1

C3_EmptyCriteriaRejected ==
    \A p \in Procs :
        LET q == peer[p]
        IN  (q.entry # "none" /\ Len(q.stopping_criteria) = 0) =>
               (q.pc = "error" /\ q.calls = 0)

(***************************************************************************)
(* C3 amended: beam_search called with an empty stopping-criteria list     *)
(* gives a UserWarning, raises no error for it and enters the loop;        *)
(* generate never enters the loop with an empty list, its criteria always  *)
(* holding a max-length criterion.                                         *)
(***************************************************************************)
C3_EmptyCriteriaWarned ==
    \A p \in Procs :
        LET q == peer[p]
        IN  /\ q.entry = "beam_search" =>
                  /\ WarnNoCriteria \in q.warnings <=> Len(q.stopping_criteria) = 0
                  /\ q.pc = "error" => q.error = "ValueError: batch dimension of input_ids"
            /\ (q.entry = "generate" /\ q.pc # "error") =>
                  /\ CriteriaMaxLength(q.stopping_criteria) # None
                  /\ WarnNoCriteria \notin q.warnings

\* A search without criteria was warned about and went on to call the model.
C3_Witness ==
    \E p \in Procs :
        LET q == peer[p]
        IN  /\ q.entry = "beam_search" /\ Len(q.stopping_criteria) = 0
            /\ WarnNoCriteria \in q.warnings
            /\ q.calls >= 1

\* The iteration (counted from 1) in which the exit test of a finished process fired.
FinishedIn(q) == Len(q.input_ids[1]) - q.start_len

(***************************************************************************)
(* C5: with synced_gpus every process takes part in exactly one all-reduce *)
(* per loop iteration, no process leaves the loop while a peer is          *)
(* unfinished, and all processes break in the same iteration: the first    *)
(* one in which every process has reported finished.                       *)
(***************************************************************************)
C5_LockStep ==
    synced_gpus =>
        \A p \in Procs :
            LET q == peer[p]
            IN  /\ q.pc \in {"top", "wait"} => q.reduces = q.cur_len - q.start_len
                /\ q.pc \in {"reduced", "final", "done"} =>
                      q.reduces = q.cur_len - q.start_len + 1
                /\ q.pc \in {"final", "done"} =>
                      /\ \A r \in Procs : peer[r].this_peer_finished
                      /\ q.reduces = 1 + MaxOf({FinishedIn(peer[r]) : r \in Procs})
                      /\ \A r \in Procs :
                            peer[r].pc \in {"final", "done"} => peer[r].reduces = q.reduces

\* Two processes have returned, one of which finished an iteration before the other.
C5_Witness ==
    /\ synced_gpus
    /\ \E p \in Procs, r \in Procs :
          /\ peer[p].pc = "done" /\ peer[r].pc = "done"
          /\ FinishedIn(peer[p]) < FinishedIn(peer[r])

AllFinished == \A p \in 1..NumPeers : peer[p].this_peer_finished
AllLeft == \A p \in 1..NumPeers : peer[p].pc \in {"final", "done"}
AllReturned == \A p \in 1..NumPeers : peer[p].pc = "done"
SomeoneLeft == \E p \in 1..NumPeers : peer[p].pc \in {"final", "done"}
SomeoneWaits == \E p \in 1..NumPeers : peer[p].pc = "wait"

(***************************************************************************)
(* C6: with synced_gpus, once every process's search has signalled done    *)
(* (pool done or a stopping criterion true), every process leaves the loop *)
(* and reaches finalize; no process waits in the all-reduce after a peer   *)
(* has left the loop.                                                      *)
(***************************************************************************)
C6_EveryoneLeaves ==
    /\ AllFinished ~> AllLeft
    /\ [](SomeoneWaits => ~SomeoneLeft)

\* Everyone has returned, one process having looped on after it finished.
C6_Witness ==
    /\ synced_gpus
    /\ AllReturned
    /\ \E p \in 1..NumPeers : peer[p].cur_len > Len(peer[p].input_ids[1])

LogitsBuilt == call.fn = "_get_logits_processor" /\ built.error = NoError
CriteriaBuilt == call.fn = "_get_stopping_criteria" /\ built.error = NoError

IsDefault(r) == r.by = "default"
IsCaller(r) == r.by = "caller"

\* Some caller-supplied element has the type of an element of created.
CallerDuplicates(created, custom_list) ==
    \E c \in Range(custom_list) : \E d \in Range(created) : c.type = d.type

(***************************************************************************)
(* C4 (as stated): whenever a caller-supplied rule has the type of a rule  *)
(* created by default construction, the final renormalization rule         *)
(* included, construction raises and produces no chain; likewise for the   *)
(* stopping criteria.                                                      *)
(***************************************************************************)
C4_DuplicateTypeRaises ==
    /\ (/\ call.fn = "_get_logits_processor"
        /\ CallerDuplicates(DefaultProcessors(call.args)
                              \o AppendIf(call.args.renormalize_logits = PyTrue,
                                          Rule("LogitNormalization", "default", <<>>)),
                            call.custom))
       => (built.error # NoError /\ built.list = <<>>)
    /\ (/\ call.fn = "_get_stopping_criteria"
        /\ CallerDuplicates(DefaultCriteria(call.args.max_length, call.args.max_time),
                            call.custom))
       => (built.error # NoError /\ built.list = <<>>)

(***************************************************************************)
(* C9: in every chain that is built, the rules created from the generation *)
(* parameters are exactly the requested ones, in the registration order    *)
(* repetition penalty, no-repeat-n-gram, encoder-no-repeat-n-gram,         *)
(* bad-words, min-length, prefix-constrained, forced-BOS, forced-EOS,      *)
(* remove-invalid-values, exponential-decay, suppress-tokens,              *)
(* begin-suppress-tokens, forced-token-ids; and the caller-supplied rules  *)
(* follow all of them, in the caller's order.  (The renormalization rule,  *)
(* which follows the caller's rules, is the subject of C10.)               *)
(***************************************************************************)
Registration ==
    << "RepetitionPenalty", "NoRepeatNGram", "EncoderNoRepeatNGram", "NoBadWords",
       "MinLength", "PrefixConstrained", "ForcedBOSToken", "ForcedEOSToken",
       "InfNanRemove", "ExponentialDecayLengthPenalty", "SuppressTokens",
       "SuppressTokensAtBegin", "ForceTokens" >>

RegisteredTypes == Range(Registration)
Rank == [t \in RegisteredTypes |-> CHOOSE i \in DOMAIN Registration : Registration[i] = t]
RankOf(t) == Rank[t]

Requested(a, t) ==
    CASE t = "RepetitionPenalty" -> a.repetition_penalty \notin {None, 10}
      [] t = "NoRepeatNGram" -> a.no_repeat_ngram_size \notin {None, 0}
      [] t = "EncoderNoRepeatNGram" -> a.encoder_no_repeat_ngram_size \notin {None, 0}
      [] t = "NoBadWords" -> a.bad_words_ids # None
      [] t = "MinLength" -> a.min_length \notin {None, 0} /\ a.eos_token_id # None
      [] t = "PrefixConstrained" -> a.prefix_allowed_tokens_fn # None
      [] t = "ForcedBOSToken" -> a.forced_bos_token_id # None
      [] t = "ForcedEOSToken" -> a.forced_eos_token_id # None
      [] t = "InfNanRemove" -> a.remove_invalid_values = PyTrue
      [] t = "ExponentialDecayLengthPenalty" -> a.exponential_decay_length_penalty # None
      [] t = "SuppressTokens" -> a.suppress_tokens # None
      [] t = "SuppressTokensAtBegin" -> a.begin_suppress_tokens # None
      [] t = "ForceTokens" -> a.forced_decoder_ids # None

IsRegistered(r) == IsDefault(r) /\ r.type \in RegisteredTypes

C9_RegistrationOrder ==
    LogitsBuilt =>
        LET chain == built.list
            registered == {i \in DOMAIN chain : IsRegistered(chain[i])}
            callers == {i \in DOMAIN chain : IsCaller(chain[i])}
        IN  /\ \A i, j \in registered :
                   i < j => RankOf(chain[i].type) < RankOf(chain[j].type)
            /\ {chain[i].type : i \in registered}
                   = {t \in RegisteredTypes : Requested(call.args, t)}
            /\ \A i \in callers : \A j \in DOMAIN chain :
                   (IsDefault(chain[j]) /\ chain[j].type # "LogitNormalization") => j < i
            /\ SelectSeq(chain, IsCaller) = call.custom

\* A chain with min-length before forced-EOS and a caller-supplied rule after both.
C9_Witness ==
    /\ LogitsBuilt
    /\ \E i, j, k \in DOMAIN built.list :
           /\ i < j /\ j < k
           /\ IsDefault(built.list[i]) /\ built.list[i].type = "MinLength"
           /\ IsDefault(built.list[j]) /\ built.list[j].type = "ForcedEOSToken"
           /\ IsCaller(built.list[k])

(***************************************************************************)
(* C10: when renormalize_logits is True the chain ends with the single     *)
(* renormalization rule created by construction, after every               *)
(* caller-supplied rule; otherwise construction creates no renormalization *)
(* rule.                                                                   *)
(***************************************************************************)
IsNormalization(r) == IsDefault(r) /\ r.type = "LogitNormalization"

C10_NormalizationLast ==
    LogitsBuilt =>
        LET chain == built.list
        IN  IF call.args.renormalize_logits = PyTrue
            THEN /\ Len(chain) > 0
                 /\ IsNormalization(chain[Len(chain)])
                 /\ \A i \in DOMAIN chain : IsNormalization(chain[i]) => i = Len(chain)
                 /\ \A i \in DOMAIN chain : IsCaller(chain[i]) => i < Len(chain)
            ELSE \A i \in DOMAIN chain : ~IsNormalization(chain[i])

\* Renormalization requested together with caller-supplied rules and a default rule.
C10_Witness ==
    /\ LogitsBuilt
    /\ call.args.renormalize_logits = PyTrue
    /\ Len(call.custom) > 1
    /\ \E i \in DOMAIN built.list : IsRegistered(built.list[i])
    /\ IsNormalization(built.list[Len(built.list)])

(***************************************************************************)
(* C7: _reorder_cache gathers along the beam axis.  In every layer the     *)
(* reordered self-attention key and value have one slice per entry of      *)
(* beam_idx, and slice i is the slice beam_idx[i] of the state before;     *)
(* the number of layers and of cached states per layer is unchanged.       *)
(***************************************************************************)
Reordered == cache_call.beam_idx # <<>>

C7_ReorderIsGather ==
    Reordered =>
        LET old == cache_call.past
            idx == cache_call.beam_idx
            new == reordered_past
        IN  /\ Len(new) = Len(old)
            /\ \A l \in DOMAIN old :
                 /\ Len(new[l]) = Len(old[l])
                 /\ \A e \in DOMAIN old[l] : e <= 2 =>
                      /\ Len(new[l][e]) = Len(idx)
                      /\ \A i \in DOMAIN idx : new[l][e][i] = old[l][e][idx[i] + 1]

\* Parent indices [2,0,0,1]: new slot 0 holds what old slot 2 held, not what slot 0 held.
C7_Witness ==
    /\ Reordered
    /\ cache_call.beam_idx = <<2, 0, 0, 1>>
    /\ Len(cache_call.past) = 2
    /\ reordered_past[2][2][1] = cache_call.past[2][2][3]
    /\ reordered_past[2][2][1] # cache_call.past[2][2][1]

(***************************************************************************)
(* C8: _reorder_cache leaves the cross-attention states alone: every       *)
(* cached state of a layer after the first two is the same before and      *)
(* after, whatever beam_idx is.                                            *)
(***************************************************************************)
C8_CrossAttentionUntouched ==
    Reordered =>
        \A l \in DOMAIN cache_call.past : \A e \in DOMAIN cache_call.past[l] :
            e > 2 => reordered_past[l][e] = cache_call.past[l][e]

\* A layer with cross-attention states, reordered by indices that move its self-attention
\* slices and would move its cross-attention slices.
C8_Witness ==
    /\ Reordered
    /\ Len(cache_call.past[1]) = 4
    /\ reordered_past[1][1] # cache_call.past[1][1]
    /\ index_select(cache_call.past[1][3], cache_call.beam_idx) # cache_call.past[1][3]
    /\ reordered_past[1][3] = cache_call.past[1][3]


(***************************************************************************)
(* The errors generate raises before the loop.                             *)
(***************************************************************************)
ErrBothLengths == "ValueError: both max_new_tokens and max_length have been set"
ErrUnfeasible == "ValueError: unfeasible length constraints"
ErrGroups == "ValueError: num_beam_groups has to be smaller or equal to num_beams"
ErrSequences == "ValueError: num_return_sequences has to be smaller or equal to num_beams"
ErrEncoderNoRepeat == "ValueError: encoder_no_repeat_ngram_size with decoder-only architecture"

ByGenerate(q) == q.entry = "generate"

\* The call failed, and it neither built the beam scorer nor ran a step of the loop.
FailedBeforeLoop(q) ==
    /\ q.pc = "error"
    /\ q.error # NoError
    /\ q.scorer = NotCalled.scorer
    /\ q.calls = 0
    /\ q.cur_len = 0
    /\ q.input_ids = <<>>
    /\ q.beam_scores = <<>>

(***************************************************************************)
(* C11: a generate call with both max_length and max_new_tokens set fails  *)
(* with the error about the two lengths, and no step of the loop runs; a   *)
(* call with only max_new_tokens never fails with that error, and when it  *)
(* reaches the loop its maximum length is max_new_tokens plus the length   *)
(* of the start-token input.                                               *)
(***************************************************************************)
C11_BothLengthsRejected ==
    \A p \in Procs :
        LET q == peer[p]
            g == q.asked
        IN  ByGenerate(q) =>
              /\ (g.max_length # None /\ g.max_new_tokens # None)
                    => (FailedBeforeLoop(q) /\ q.error = ErrBothLengths)
              /\ (g.max_length = None /\ g.max_new_tokens # None)
                    => /\ q.error # ErrBothLengths
                       /\ q.pc # "error"
                             => CriteriaMaxLength(q.stopping_criteria) = g.max_new_tokens + 1

C11_Witness ==
    \E p \in Procs :
        /\ ByGenerate(peer[p])
        /\ peer[p].asked.max_length # None
        /\ peer[p].asked.max_new_tokens # None
        /\ peer[p].asked.num_beam_groups <= peer[p].asked.num_beams
        /\ peer[p].asked.num_return_sequences <= peer[p].asked.num_beams
        /\ peer[p].pc = "error"

\* The other case of C11: a call with only max_new_tokens that has run a step.
C11_OnlyNewTokensRuns ==
    \E p \in Procs :
        /\ ByGenerate(peer[p])
        /\ peer[p].asked.max_length = None
        /\ peer[p].asked.max_new_tokens # None
        /\ peer[p].calls > 0

(***************************************************************************)
(* C12: a generate call with num_return_sequences > num_beams fails before *)
(* the loop: the beam scorer is not built and no step runs.  The error is  *)
(* the one about num_return_sequences unless an earlier check of generate  *)
(* has already failed.                                                     *)
(***************************************************************************)
C12_TooManySequencesRejected ==
    \A p \in Procs :
        LET q == peer[p]
            g == q.asked
        IN  (ByGenerate(q) /\ g.num_return_sequences > g.num_beams) =>
              /\ FailedBeforeLoop(q)
              /\ (/\ g.max_length = None \/ g.max_new_tokens = None
                  /\ g.min_length = None
                  /\ g.num_beam_groups <= g.num_beams
                  /\ g.stopping_criteria = <<>>)
                    => q.error = ErrSequences

C12_Witness ==
    \E p \in Procs :
        /\ ByGenerate(peer[p])
        /\ peer[p].asked.num_return_sequences > peer[p].asked.num_beams
        /\ peer[p].asked.num_beam_groups <= peer[p].asked.num_beams
        /\ peer[p].error = ErrSequences

(***************************************************************************)
(* C13: _get_logits_processor called with encoder_no_repeat_ngram_size > 0 *)
(* raises its ValueError and builds no chain when the configuration is not *)
(* encoder-decoder; when it is, that error is not raised, and the chain    *)
(* that is built holds the encoder-no-repeat-n-gram rule with the size.    *)
(***************************************************************************)
EncoderNoRepeatRequested ==
    /\ call.fn = "_get_logits_processor"
    /\ call.args.encoder_no_repeat_ngram_size # None
    /\ call.args.encoder_no_repeat_ngram_size > 0

C13_EncoderNoRepeatNeedsEncoder ==
    EncoderNoRepeatRequested =>
        IF call.args.is_encoder_decoder = PyTrue
        THEN /\ built.error # ErrEncoderNoRepeat
             /\ built.error = NoError
                   => Rule("EncoderNoRepeatNGram", "default",
                           <<call.args.encoder_no_repeat_ngram_size>>) \in Range(built.list)
        ELSE built.error = ErrEncoderNoRepeat /\ built.list = <<>>

C13_Witness ==
    /\ EncoderNoRepeatRequested
    /\ call.args.is_encoder_decoder # PyTrue
    /\ built.error = ErrEncoderNoRepeat

\* The other case of C13: the rule in a chain built for an encoder-decoder configuration.
C13_RuleAdded ==
    /\ EncoderNoRepeatRequested
    /\ call.args.is_encoder_decoder = PyTrue
    /\ built.error = NoError
    /\ Len(built.list) > 1

(***************************************************************************)
(* C14: a generate call with num_beam_groups > num_beams fails before the  *)
(* rule chain, the stopping criteria and the beam scorer are built and     *)
(* before any step: the error is never one of chain or criteria            *)
(* construction, and it is the one about num_beam_groups unless a check of *)
(* the lengths has already failed.                                         *)
(***************************************************************************)
C14_TooManyGroupsRejected ==
    \A p \in Procs :
        LET q == peer[p]
            g == q.asked
        IN  (ByGenerate(q) /\ g.num_beam_groups > g.num_beams) =>
              /\ FailedBeforeLoop(q)
              /\ q.logits_processor = <<>>
              /\ q.stopping_criteria = <<>>
              /\ q.error \in {ErrBothLengths, ErrUnfeasible, ErrGroups}
              /\ (/\ g.max_length = None \/ g.max_new_tokens = None
                  /\ g.min_length = None)
                    => q.error = ErrGroups

C14_Witness ==
    \E p \in Procs :
        /\ ByGenerate(peer[p])
        /\ peer[p].asked.num_beam_groups > peer[p].asked.num_beams
        /\ peer[p].asked.stopping_criteria # <<>>
        /\ peer[p].asked.num_return_sequences > peer[p].asked.num_beams
        /\ peer[p].error = ErrGroups


(***************************************************************************)
(* C15: at the head of the loop before the first step, the beam scores are *)
(* 0 for the first beam of every example and -1e9 for each of its other    *)
(* beams, for every batch size and number of beams; and when generate made *)
(* the call, every example has num_beams rows, each the one decoder start  *)
(* token.                                                                  *)
(***************************************************************************)
AtLoopEntry(q) == q.pc = "top" /\ q.calls = 0

C15_InitialBeams ==
    \A p \in Procs :
        LET q == peer[p]
            num_beams == q.scorer.num_beams
            batch_size == Len(q.scorer.beam_hyps)
        IN  AtLoopEntry(q) =>
              /\ num_beams >= 1
              /\ Len(q.beam_scores) = batch_size * num_beams
              /\ \A b \in 0..(batch_size - 1) : \A k \in 0..(num_beams - 1) :
                    q.beam_scores[b * num_beams + k + 1] = IF k = 0 THEN 0 ELSE MinusBig
              /\ ByGenerate(q) =>
                    /\ batch_size = q.asked.batch_size
                    /\ num_beams = q.asked.num_beams
                    /\ Len(q.input_ids) = batch_size * num_beams
                    /\ \A r \in DOMAIN q.input_ids : q.input_ids[r] = <<DecoderStartToken>>
                    /\ q.cur_len = 1

C15_Witness ==
    \E p \in Procs :
        /\ AtLoopEntry(peer[p])
        /\ ByGenerate(peer[p])
        /\ peer[p].asked.batch_size = MaxBatch
        /\ peer[p].asked.num_beams = MaxBeams
        /\ Len(peer[p].beam_scores) = MaxBatch * MaxBeams


(***************************************************************************)
(* C17 (as stated): a call that has returned hands back the sequences,     *)
(* and, when return_dict_in_generate and output_scores were both           *)
(* requested, the processed scores of every executed step, one entry per   *)
(* step; otherwise no scores.                                              *)
(***************************************************************************)
ScoresRequested(q) == q.return_dict_in_generate /\ q.output_scores

C17_RequestedScoresReturned ==
    \A p \in Procs :
        LET q == peer[p]
        IN  q.pc = "done" =>
              /\ q.returned.sequences = q.sequences
              /\ IF ScoresRequested(q)
                 THEN /\ q.returned.scores # NoScores
                      /\ Len(q.returned.scores[1]) = q.calls
                 ELSE q.returned.scores = NoScores

\* What the loop does do: it collects one entry per executed step when asked to.
C17_ScoresCollected ==
    \A p \in Procs :
        LET q == peer[p]
        IN  q.pc \in {"top", "final", "done"} =>
              IF ScoresRequested(q)
              THEN q.scores # NoScores /\ Len(q.scores[1]) = q.calls
              ELSE q.scores = NoScores


(***************************************************************************)
(* C18 (as stated): once the scoring model has answered with a NaN and the *)
(* chain has no rule that removes invalid values, the call is in its error *)
(* state, no step has run after that one, and no NaN is among the beam     *)
(* scores.                                                                 *)
(***************************************************************************)
RemovesInvalid(chain) == \E i \in DOMAIN chain : chain[i].type = "InfNanRemove"

C18_InvalidScoreAborts ==
    \A p \in Procs :
        LET q == peer[p]
        IN  (q.invalid_at # None /\ ~RemovesInvalid(q.logits_processor)) =>
              /\ q.pc = "error"
              /\ q.cur_len = q.invalid_at + 1
              /\ \A i \in DOMAIN q.beam_scores : ~IsNaN(q.beam_scores[i])

\* What the code does: the NaN is ranked, becomes a beam score, and the call returns.
C18_InvalidScoreRanked ==
    \E p \in Procs :
        /\ peer[p].invalid_at # None
        /\ peer[p].pc = "done"
        /\ peer[p].cur_len > peer[p].invalid_at + 1
        /\ \E i \in DOMAIN peer[p].beam_scores : IsNaN(peer[p].beam_scores[i])


(***************************************************************************)
(* C19: after every step each example has exactly num_beams slots: the new *)
(* beam scores, the chosen tokens, the parent indices and the rows of the  *)
(* token history all number batch_size * num_beams, every row one token    *)
(* longer than at the step before; and no example's finished set holds     *)
(* more than num_beams hypotheses, then or after finalize.                 *)
(***************************************************************************)
C19_BeamCount ==
    \A p \in Procs :
        LET q == peer[p]
            num_beams == q.scorer.num_beams
            slots == Len(q.scorer.beam_hyps) * num_beams
        IN  /\ \A b \in DOMAIN q.scorer.beam_hyps : Len(q.scorer.beam_hyps[b]) <= num_beams
            /\ (q.pc \in {"top", "final", "done"} /\ q.calls > 0) =>
                  /\ Len(q.beam_scores) = slots
                  /\ Len(q.beam_next_tokens) = slots
                  /\ Len(q.beam_idx) = slots
                  /\ Len(q.input_ids) = slots
                  /\ \A i \in DOMAIN q.beam_idx : q.beam_idx[i] \in 0..(slots - 1)
                  /\ \A r \in DOMAIN q.input_ids : Len(q.input_ids[r]) = q.cur_len

C19_Witness ==
    \E p \in Procs :
        /\ peer[p].pc \in {"top", "final"}
        /\ peer[p].calls >= 2
        /\ peer[p].scorer.num_beams = MaxBeams
        /\ \E b \in DOMAIN peer[p].scorer.beam_hyps :
              Len(peer[p].scorer.beam_hyps[b]) = MaxBeams


(***************************************************************************)
(* C20: after any sequence of k insertions into a finished set, the set    *)
(* holds min(k, num_beams) of the inserted hypotheses, and they are the    *)
(* best by score / length ^ length_penalty: no hypothesis that was         *)
(* inserted and is not retained ranks above a retained one.  (Hypotheses   *)
(* are counted with multiplicity; among equal ranks either may be kept.)   *)
(***************************************************************************)
Count(s, h) == Cardinality({i \in DOMAIN s : s[i] = h})

Smaller(a, b) == IF a <= b THEN a ELSE b

C20_FinishedSetIsTopK ==
    /\ Len(pool.beams) = Smaller(Len(pool.inserted), pool.num_beams)
    /\ \A h \in Range(pool.beams) : Count(pool.beams, h) <= Count(pool.inserted, h)
    /\ \A h \in Range(pool.inserted) :
          Count(pool.beams, h) < Count(pool.inserted, h)
              => \A kept \in Range(pool.beams) : ~RanksAbove(h, kept, pool.length_penalty)

\* A full set has replaced its worst hypothesis by a better newcomer, and refused another.
C20_Witness ==
    /\ Len(pool.inserted) = MaxInserts
    /\ pool.num_beams = MaxBeams
    /\ pool.length_penalty = 1
    /\ \E i \in 1..MaxBeams : pool.inserted[i] \notin Range(pool.beams)
    /\ \E i \in (MaxBeams + 1)..MaxInserts : pool.inserted[i] \in Range(pool.beams)
    /\ \E i \in (MaxBeams + 1)..MaxInserts : pool.inserted[i] \notin Range(pool.beams)

(***************************************************************************)
(* C21: with do_early_stopping true, no hypothesis leaves a group's        *)
(* finished set, and none handed to it is refused, while it ranks above a  *)
(* hypothesis the set retains: whenever a step leaves out a hypothesis     *)
(* that was in the set or was handed to it, the set is full and the        *)
(* hypothesis does not rank above any retained one.                        *)
(***************************************************************************)
\* The step from q to r ran the loop body: the model was called and a token appended.
Executed(q, r) ==
    /\ q.pc \in {"top", "reduced"}
    /\ r.calls = q.calls + 1
    /\ r.cur_len = q.cur_len + 1
    /\ Len(r.input_ids) > 0
    /\ Len(r.input_ids[1]) = Len(q.input_ids[1]) + 1

\* The candidates of group b the walk of the step reached: those before the
\* num_beams-th live one.
Walked(r, b) ==
    {k \in DOMAIN r.next_tokens[b] :
        Cardinality({j \in 1..(k - 1) : r.next_tokens[b][j] # r.eos_token_id})
            < r.scorer.num_beams}

\* The hypotheses the step from q to r handed to the finished set of group b, in order.
RECURSIVE HandedFrom(_, _, _, _)
HandedFrom(q, r, b, k) ==
    IF k > Len(r.next_tokens[b]) THEN <<>>
    ELSE IF k \in Walked(r, b) /\ r.next_tokens[b][k] = r.eos_token_id
         THEN <<[ids |-> q.input_ids[(b - 1) * r.scorer.num_beams + r.next_indices[b][k] + 1],
                 score |-> r.next_token_scores[b][k]]>> \o HandedFrom(q, r, b, k + 1)
         ELSE HandedFrom(q, r, b, k + 1)

C21_NoBetterHypothesisLost ==
    [][\A p \in Procs : \A q \in {peer[p]} : \A r \in {peer'[p]} :
          (Executed(q, r) /\ q.scorer.do_early_stopping) =>
             \A b \in DOMAIN q.scorer.done :
                ~q.scorer.done[b] =>
                   \A offered \in {q.scorer.beam_hyps[b] \o HandedFrom(q, r, b, 1)} :
                      \A kept \in {r.scorer.beam_hyps[b]} :
                         \A i \in DOMAIN offered :
                            Count(kept, offered[i]) < Count(offered, offered[i]) =>
                               /\ Len(kept) = r.scorer.num_beams
                               /\ \A j \in DOMAIN kept :
                                     ~RanksAbove(offered[i], kept[j],
                                                 r.scorer.length_penalty)]_vars

\* A step with early stopping has handed a completed hypothesis to a finished set
\* that is full and does not hold it.
C21_Witness ==
    \E p \in Procs :
        LET r == peer[p]
        IN  /\ Stepped(r)
            /\ r.scorer.do_early_stopping
            /\ \E b \in DOMAIN r.scorer.done :
                  /\ Len(r.scorer.beam_hyps[b]) = r.scorer.num_beams
                  /\ \E k \in Walked(r, b) :
                        /\ r.next_tokens[b][k] = r.eos_token_id
                        /\ \A j \in DOMAIN r.scorer.beam_hyps[b] :
                              \/ r.scorer.beam_hyps[b][j].score # r.next_token_scores[b][k]
                              \/ Len(r.scorer.beam_hyps[b][j].ids) # r.cur_len - 1

(***************************************************************************)
(* C22: finalize is called once, after the loop, with the max_length of    *)
(* the stopping criteria, and the call returns num_return_sequences        *)
(* sequences for every example: every finished set is first filled up to   *)
(* num_beams with live beams, and the sequences of an example are the      *)
(* best num_return_sequences hypotheses of its set by score /              *)
(* length ^ length_penalty, best first, equal ranks by earlier insertion,  *)
(* cut to max_length and padded on the right to a common length.           *)
(***************************************************************************)
\* Neither hypothesis ranks above the other.
SameRank(h1, h2, length_penalty) ==
    ~RanksAbove(h1, h2, length_penalty) /\ ~RanksAbove(h2, h1, length_penalty)

\* sel lists the positions of the k best hypotheses of hyps, best first, equal ranks in
\* the order of insertion.
IsBestFirst(sel, hyps, length_penalty) ==
    /\ \A k1, k2 \in DOMAIN sel :
          k1 < k2 =>
             /\ sel[k1] # sel[k2]
             /\ ~RanksAbove(hyps[sel[k2]], hyps[sel[k1]], length_penalty)
             /\ SameRank(hyps[sel[k1]], hyps[sel[k2]], length_penalty) => sel[k1] < sel[k2]
    /\ \A j \in DOMAIN hyps \ Range(sel) :
          \A k \in DOMAIN sel :
             /\ ~RanksAbove(hyps[j], hyps[sel[k]], length_penalty)
             /\ SameRank(hyps[j], hyps[sel[k]], length_penalty) => sel[k] < j

\* row is ids, cut to max_length when one is given, followed by padding only.
IsCutAndPadded(row, ids, max_length, pad_token_id) ==
    LET n == IF max_length # None /\ Len(ids) > max_length THEN max_length ELSE Len(ids)
    IN  /\ Len(row) >= n
        /\ \A i \in 1..Len(row) : row[i] = IF i <= n THEN ids[i] ELSE pad_token_id

C22_FinalizeReturnsBest ==
    \A p \in Procs :
        LET q == peer[p]
            hyps == q.scorer.beam_hyps
            num_beams == q.scorer.num_beams
            keep == q.scorer.num_beam_hyps_to_keep
            max_length == CriteriaMaxLength(q.stopping_criteria)
        IN  /\ q.pc # "done" => q.finalized = <<>>
            /\ q.pc = "done" =>
                  /\ q.finalized = <<max_length>>
                  /\ (ByGenerate(q) => keep = q.asked.num_return_sequences)
                  /\ q.returned.sequences = q.sequences
                  /\ Len(q.sequences) = Len(hyps) * keep
                  /\ \A i, j \in DOMAIN q.sequences : Len(q.sequences[i]) = Len(q.sequences[j])
                  /\ \A b \in DOMAIN hyps :
                        /\ Len(hyps[b]) = num_beams
                        /\ \A j \in DOMAIN hyps[b] :
                              Len(hyps[b][j].ids) = q.cur_len =>
                                 \E i \in 1..num_beams :
                                    /\ hyps[b][j].ids = q.input_ids[(b - 1) * num_beams + i]
                                    /\ hyps[b][j].score = q.beam_scores[(b - 1) * num_beams + i]
                        /\ \E sel \in [1..keep -> 1..num_beams] :
                              /\ IsBestFirst(sel, hyps[b], q.scorer.length_penalty)
                              /\ \A k \in 1..keep :
                                    IsCutAndPadded(q.sequences[(b - 1) * keep + k],
                                                   hyps[b][sel[k]].ids, max_length,
                                                   q.pad_token_id)

\* A generate call asking for MaxBeams sequences has returned them; the set they come
\* from holds a hypothesis completed in the loop and a promoted live beam, and the best
\* of them was not the first inserted.
C22_Witness ==
    \E p \in Procs :
        LET q == peer[p]
            hyps == q.scorer.beam_hyps
        IN  /\ q.pc = "done"
            /\ ByGenerate(q)
            /\ q.scorer.num_beam_hyps_to_keep = MaxBeams
            /\ Len(q.sequences) = MaxBeams
            /\ \E j \in DOMAIN hyps[1] : Len(hyps[1][j].ids) < q.cur_len
            /\ \E j \in DOMAIN hyps[1] : Len(hyps[1][j].ids) = q.cur_len
            /\ \E j \in 2..Len(hyps[1]) :
                  RanksAbove(hyps[1][j], hyps[1][1], q.scorer.length_penalty)

(***************************************************************************)
(* C23: in a generate call with min_length = m > 0 and an end-of-sequence  *)
(* token, a step on a history shorter than m leaves the chain with the     *)
(* end-of-sequence score of every row at the minus-infinity sentinel, and  *)
(* a step on a history of m tokens or more leaves it with the score        *)
(* log_softmax gave; no hypothesis is completed on a history shorter than  *)
(* m.                                                                      *)
(***************************************************************************)
\* The call runs with the min-length rule for m = min_length.
MinLengthAsked(q) ==
    /\ ByGenerate(q)
    /\ q.asked.min_length # None
    /\ q.asked.min_length > 0
    /\ q.eos_token_id # None

C23_MinLengthEnforced ==
    \A p \in Procs :
        LET q == peer[p]
            m == q.asked.min_length
            eos == q.eos_token_id + 1
        IN  (MinLengthAsked(q) /\ Stepped(q)) =>
              /\ \E i \in DOMAIN q.logits_processor :
                    /\ q.logits_processor[i].type = "MinLength"
                    /\ q.logits_processor[i].args = <<m, q.eos_token_id>>
              /\ \A r \in DOMAIN q.next_token_scores_processed :
                    q.next_token_scores_processed[r][eos] =
                        IF q.cur_len - 1 < m THEN NegInf
                        ELSE log_softmax(q.next_token_logits[r])[eos]
              /\ \A b \in DOMAIN q.scorer.beam_hyps :
                    \A j \in DOMAIN q.scorer.beam_hyps[b] :
                        Len(q.scorer.beam_hyps[b][j].ids) >= m

\* A step on a history shorter than min_length in which the model preferred the end
\* of sequence in every row.
C23_Witness ==
    \E p \in Procs :
        LET q == peer[p]
        IN  /\ MinLengthAsked(q)
            /\ Stepped(q)
            /\ q.cur_len - 1 < q.asked.min_length
            /\ q.scorer.num_beams = MaxBeams
            /\ \A r \in DOMAIN q.next_token_logits :
                  \A t \in DOMAIN q.next_token_logits[r] :
                      q.next_token_logits[r][q.eos_token_id + 1] >= q.next_token_logits[r][t]
            /\ \E r \in DOMAIN q.next_token_logits :
                  q.next_token_logits[r][q.eos_token_id + 1] > q.next_token_logits[r][PadToken + 1]
            /\ \A b \in DOMAIN q.next_tokens :
                  \A k \in DOMAIN q.next_tokens[b] : q.next_tokens[b][k] # q.eos_token_id

(***************************************************************************)
(* C24: in every step and for every group, the candidates handed to the    *)
(* beam scorer are 2 * num_beams distinct entries of the group's flattened *)
(* num_beams * vocab vector of summed scores, none smaller than an entry   *)
(* left out, in descending order of score; the candidate with flattened    *)
(* index f is handed over as parent beam f div vocab and token f mod       *)
(* vocab, with 0 <= parent < num_beams and 0 <= token < vocab.  The claim  *)
(* as made adds that equal scores come in the order of their flattened     *)
(* indices (C24_EqualScoresByIndex).                                       *)
(***************************************************************************)
\* The flattened vector of group b that the step from q to r ranked.
RankedVector(q, r, b) ==
    Concat([i \in 1..r.scorer.num_beams |->
               LET row == (b - 1) * r.scorer.num_beams + i
               IN  [t \in DOMAIN r.next_token_scores_processed[row] |->
                       AddScore(r.next_token_scores_processed[row][t], q.beam_scores[row])]])

\* The flattened indices of the candidates of group b, rebuilt from parent and token.
FlatIndices(r, b) ==
    [k \in DOMAIN r.next_tokens[b] |-> r.next_indices[b][k] * VocabSize + r.next_tokens[b][k]]

\* f lists 2 * num_beams distinct entries of v, largest first, none below an entry left
\* out, and the candidates of group b are these entries split into parent and token.
AreTopCandidates(r, b, v, f) ==
    /\ Len(v) = r.scorer.num_beams * VocabSize
    /\ Len(f) = 2 * r.scorer.num_beams
    /\ DOMAIN r.next_indices[b] = DOMAIN f
    /\ DOMAIN r.next_token_scores[b] = DOMAIN f
    /\ \A k \in DOMAIN f :
          /\ r.next_indices[b][k] \in 0..(r.scorer.num_beams - 1)
          /\ r.next_tokens[b][k] \in 0..(VocabSize - 1)
          /\ r.next_indices[b][k] = f[k] \div VocabSize
          /\ r.next_tokens[b][k] = f[k] % VocabSize
          /\ r.next_token_scores[b][k] = v[f[k] + 1]
    /\ \A k1, k2 \in DOMAIN f : k1 < k2 => f[k1] # f[k2] /\ v[f[k1] + 1] >= v[f[k2] + 1]
    /\ \A j \in DOMAIN v : \A k \in DOMAIN f : v[j] > v[f[k] + 1] => j - 1 \in Range(f)

\* Among equal scores the lower flattened index comes first, and is taken first.
EqualByLowerIndex(v, f) ==
    /\ \A k1, k2 \in DOMAIN f : (k1 < k2 /\ v[f[k1] + 1] = v[f[k2] + 1]) => f[k1] < f[k2]
    /\ \A j \in DOMAIN v : \A k \in DOMAIN f :
          (j - 1 \notin Range(f) /\ v[j] = v[f[k] + 1]) => f[k] < j - 1

C25_HistoryUpdate ==
    [][\A p \in Procs : \A q \in {peer[p]} : \A r \in {peer'[p]} :
          (~synced_gpus /\ Executed(q, r)) =>
             /\ Len(q.input_ids) = Len(q.scorer.beam_hyps) * q.scorer.num_beams
             /\ Len(r.input_ids) = Len(q.input_ids)
             /\ Len(r.beam_idx) = Len(q.input_ids)
             /\ Len(r.beam_next_tokens) = Len(q.input_ids)
             /\ \A i \in DOMAIN r.input_ids :
                   /\ r.beam_idx[i] \in 0..(Len(q.input_ids) - 1)
                   /\ r.input_ids[i] = q.input_ids[r.beam_idx[i] + 1] \o <<r.beam_next_tokens[i]>>
                   /\ Len(r.input_ids[i]) = Len(q.input_ids[i]) + 1
                   /\ Len(q.input_ids[i]) = q.cur_len
                   /\ Len(r.input_ids[i]) = r.cur_len]_vars

\* After a second step, some row continues a parent that was at another index and held
\* another history than the row that was at its own index.
C25_Witness ==
    \E p \in Procs :
        LET r == peer[p]
        IN  /\ ~synced_gpus
            /\ Stepped(r)
            /\ r.calls >= 2
            /\ \E i, j \in DOMAIN r.input_ids :
                  /\ r.beam_idx[i] # i - 1
                  /\ r.beam_idx[j] = i - 1
                  /\ SubSeq(r.input_ids[i], 1, r.cur_len - 1)
                        # SubSeq(r.input_ids[j], 1, r.cur_len - 1)

(***************************************************************************)
(* C26: every executed step calls the scoring model on the history, takes  *)
(* the log-softmax of the logits it answers, applies the chain to these    *)
(* scores with the history, and only then adds the cumulative score of     *)
(* each beam: what the chain returns is a log-probability or the           *)
(* minus-infinity sentinel, whatever the beam scores, and the score of a   *)
(* candidate with parent b and token t is chain(history, log-softmax)[b][t]*)
(* + beam_scores[b].                                                       *)
(***************************************************************************)
C26_ChainBeforeBeamScores ==
    [][\A p \in Procs : \A q \in {peer[p]} : \A r \in {peer'[p]} :
          Executed(q, r) =>
             \A logprobs \in {[i \in DOMAIN r.next_token_logits |->
                                  log_softmax(r.next_token_logits[i])]} :
                /\ r.last_call.decoder_input_ids = q.input_ids
                /\ DOMAIN r.next_token_logits = DOMAIN q.input_ids
                /\ r.next_token_scores_processed =
                      ApplyChain(q.logits_processor, q.input_ids, logprobs)
                /\ \A i \in DOMAIN logprobs : \A t \in DOMAIN logprobs[i] :
                      r.next_token_scores_processed[i][t] \in {logprobs[i][t], NegInf}
                /\ \A b \in DOMAIN r.next_tokens : \A k \in DOMAIN r.next_tokens[b] :
                      LET row == (b - 1) * r.scorer.num_beams + r.next_indices[b][k] + 1
                      IN  r.next_token_scores[b][k] =
                             AddScore(r.next_token_scores_processed[row][r.next_tokens[b][k] + 1],
                                      q.beam_scores[row])]_vars

\* A step whose chain masked the end of sequence, while a candidate of the beam that
\* starts at -1e9 was ranked with that cumulative score.
C26_Witness ==
    \E p \in Procs :
        LET r == peer[p]
        IN  /\ Stepped(r)
            /\ MinLengthAsked(r)
            /\ r.scorer.num_beams = MaxBeams
            /\ \A i \in DOMAIN r.next_token_scores_processed :
                  /\ r.next_token_scores_processed[i][r.eos_token_id + 1] = NegInf
                  /\ \A t \in DOMAIN r.next_token_scores_processed[i] :
                        r.next_token_scores_processed[i][t] # MinusBig
            /\ \E k \in DOMAIN r.next_tokens[1] :
                  /\ r.next_indices[1][k] = 1
                  /\ r.next_token_scores[1][k] = MinusBig

(***************************************************************************)
(* C27: the encoder outputs and the source attention mask that a search    *)
(* holds are those it was entered with (in generate, the one encoder pass  *)
(* expanded to num_beams rows per example) for as long as it runs; every   *)
(* call of the scoring model is handed exactly these, and no call runs the *)
(* encoder again.                                                          *)
(***************************************************************************)
C27_SourceContextFixed ==
    \A p \in Procs :
        LET q == peer[p]
            rows == DOMAIN q.input_ids
        IN  q.pc \in {"top", "final", "done"} =>
              /\ q.encoder_outputs = [r \in rows |-> 1 + (r - 1) \div q.scorer.num_beams]
              /\ q.attention_mask = [r \in rows |-> 1]
              /\ q.encoder_passes = IF ByGenerate(q) THEN 1 ELSE 0
              /\ q.calls >= 1 =>
                    /\ q.last_call.encoder_outputs = q.encoder_outputs
                    /\ q.last_call.attention_mask = q.attention_mask

\* A generate call with MaxBeams beams has made its second model call, after a step
\* that moved a beam to another row.
C27_Witness ==
    \E p \in Procs :
        LET q == peer[p]
        IN  /\ ByGenerate(q)
            /\ Stepped(q)
            /\ q.calls >= 2
            /\ q.scorer.num_beams = MaxBeams
            /\ \E i \in DOMAIN q.beam_idx : q.beam_idx[i] # i - 1
            /\ q.encoder_passes = 1

(***************************************************************************)
(* C28: a search never runs with a token history whose row count differs   *)
(* from num_beams * batch_size.  beam_search raises a ValueError before    *)
(* its first step exactly when it is entered with another row count, and   *)
(* from loop entry to return, after every step, the history has            *)
(* num_beams * batch_size rows.                                            *)
(***************************************************************************)
ErrBatchDimension == "ValueError: batch dimension of input_ids"

\* The rows of the history are not num_beams per example.
RowsMismatch(q) == Len(q.input_ids) # q.scorer.num_beams * Len(q.scorer.beam_hyps)

SearchState(q) == <<q.input_ids, q.beam_scores, q.next_tokens, q.next_indices, q.scorer>>

C29_FinishedPeerFrozen ==
    [][\A p \in Procs : \A q \in {peer[p]} : \A r \in {peer'[p]} :
          (synced_gpus /\ q.this_peer_finished) =>
             /\ r.this_peer_finished
             /\ q.pc # "final" => SearchState(r) = SearchState(q)
             /\ (q.pc = "reduced" /\ q.flag # 0 /\ r # q) =>
                   /\ r.pc = "top"
                   /\ r.calls = q.calls + 1
                   /\ r.last_call.decoder_input_ids = q.input_ids
             /\ r.calls # q.calls => (q.pc = "reduced" /\ q.flag # 0)
             /\ r.pc = "final" => (q.pc = "final" \/ (q.pc = "reduced" /\ q.flag = 0))]_vars

\* A finished process has gone round the loop with its peer: its step counter and its
\* model calls are ahead of its token history, and it has left the loop.
C29_Witness ==
    \E p \in Procs :
        LET q == peer[p]
        IN  /\ synced_gpus
            /\ q.this_peer_finished
            /\ q.pc = "final"
            /\ q.cur_len > Len(q.input_ids[1])
            /\ q.calls > Len(q.input_ids[1]) - q.start_len

(***************************************************************************)
(* C30: a generate call without synced_gpus whose maximum length is L      *)
(* (max_length, or max_new_tokens + 1 for the one start token, or the      *)
(* configuration's) hands finalize a token history of at most L tokens,    *)
(* also when the start token alone is already L tokens or more             *)
(* (C30_HistoryWithinMaxLength, the claim as made).  Amended: the loop     *)
(* runs at least one step and at most max(L - 1, 1) steps, taking a step   *)
(* only while the history is shorter than L or no step has run yet, so     *)
(* the history handed to finalize has at most max(L, 2) tokens: with L = 1 *)
(* the call is only warned, runs one step and hands over 2 tokens.         *)
(***************************************************************************)
\* The maximum length of the generate call q.
AskedMaxLength(q) ==
    IF q.asked.max_length # None THEN q.asked.max_length
    ELSE IF q.asked.max_new_tokens # None THEN q.asked.max_new_tokens + 1
    ELSE ConfigMaxLength

Larger(a, b) == IF a >= b THEN a ELSE b

\* The generate call q is in its loop, or past it.
Searching(q) == ~synced_gpus /\ ByGenerate(q) /\ q.pc \in {"top", "final", "done"}

C30_HistoryWithinMaxLength ==
    \A p \in Procs :
        LET q == peer[p]
        IN  (Searching(q) /\ q.pc \in {"final", "done"}) =>
               Len(q.input_ids[1]) <= AskedMaxLength(q)

C30_BoundedSteps ==
    \A p \in Procs :
        LET q == peer[p]
            L == AskedMaxLength(q)
        IN  Searching(q) =>
              /\ CriteriaMaxLength(q.stopping_criteria) = L
              /\ q.start_len = 1
              /\ Len(q.input_ids[1]) = q.start_len + q.calls
              /\ q.calls <= Larger(L - 1, 1)
              /\ Len(q.input_ids[1]) <= Larger(L, 2)
              /\ q.pc = "top" => (q.calls = 0 \/ Len(q.input_ids[1]) < L)
              /\ q.pc = "top" => q.cur_len < StepCap
              /\ q.pc \in {"final", "done"} => q.calls >= 1
              /\ WarnInputLength \in q.warnings <=> q.start_len >= L

\* A generate call with max_length 1 was warned, ran one step and has handed finalize
\* a history of 2 tokens.
C30_Witness ==
    \E p \in Procs :
        LET q == peer[p]
        IN  /\ Searching(q)
            /\ q.pc = "done"
            /\ AskedMaxLength(q) = 1
            /\ WarnInputLength \in q.warnings
            /\ q.calls = 1
            /\ Len(q.input_ids[1]) = 2

====
